---- MODULE Spec2Model ----
(***************************************************************************)
(* Metadata / tag consistency subsystem of the CattoPic worker:           *)
(* MetadataService (D1 store), the tag handlers, and the delete-tag       *)
(* pipeline (store -> cache -> queue).                                     *)
(*                                                                         *)
(* The relational store is a record                                        *)
(*   [images     : image id -> "absent" | "landscape" | "portrait",        *)
(*    tags       : set of tag names (the rows of table tags),              *)
(*    image_tags : set of <<image id, tag name>> (the join table)]         *)
(* Tag rows are identified by their name; image_tags refers to the tag by  *)
(* name, so a rename rewrites the pairs (the SQL keeps a numeric tag id).  *)
(***************************************************************************)
EXTENDS Integers, Sequences, FiniteSets, TLC

VARIABLES
    db,     \* the D1 store
    last,   \* the service call made last, when the service is called directly
    cache,  \* the KV entry of the tags list
    queue,  \* the messages sent to DELETE_QUEUE, in order
    proc,   \* the requests being handled
    hist,   \* history: the tag lists the store has held
    acked,  \* history: the newest entry of hist a returned tag mutation wrote
    quota,  \* the number of requests that may still start
    comp,   \* the compress call in progress
    up,     \* the upload request in progress
    bucket, \* the objects of R2_BUCKET
    imgrows, \* the format and path columns of the image rows
    look    \* the random-image lookup made last

vars == <<db, last, cache, queue, proc, hist, acked, quota, comp, up, bucket, imgrows, look>>
tagvars == <<cache, queue, proc, hist, acked, quota>>
imgvars == <<comp, up, bucket, imgrows, look>>
reqvars == <<tagvars, imgvars>>

(* ---------------------------------------------------------------------- *)
(* Bounds                                                                  *)
(* ---------------------------------------------------------------------- *)
NumImages == 2
NumTags == 2
MaxFilterTags == 2
MaxSaveTags == 2
NumProcs == 2
MaxRequests == 2
MaxTagRequests == 3
MaxBatchTags == 1
MaxBytes == 3
MaxUploads == 1
MaxDeliveries == 3

ImageIds == 1..NumImages
NoImage == 0
TagNames == <<"a", "b", "c", "d", "e">>
Tags == {TagNames[k] : k \in 1..NumTags}
Orientations == {"landscape", "portrait"}
NoOrientation == "any"

(* Sequences over S of length at most n (tag lists as the callers pass     *)
(* them: ordered, possibly with repeated names).                           *)
SeqsUpTo(S, n) == UNION {[1..k -> S] : k \in 0..n}

Range(s) == {s[k] : k \in 1..Len(s)}

(* ---------------------------------------------------------------------- *)
(* The store and its SQL statements                                        *)
(* ---------------------------------------------------------------------- *)
EmptyStore ==
    [images |-> [i \in ImageIds |-> "absent"], tags |-> {}, image_tags |-> {}]

Present(s) == {i \in ImageIds : s.images[i] # "absent"}

(* images associated with tag t: image_tags JOIN tags WHERE t.name = t     *)
ImagesOfTag(s, t) == {i \in ImageIds : <<i, t>> \in s.image_tags}

TagsOfImage(s, i) == {t \in Tags : <<i, t>> \in s.image_tags}

(* A statement result: ok = FALSE is a raised constraint error, with the   *)
(* store untouched by that statement.                                      *)
Ok(s) == [ok |-> TRUE, s |-> s, changes |-> 0]
OkN(s, n) == [ok |-> TRUE, s |-> s, changes |-> n]
Err(s) == [ok |-> FALSE, s |-> s, changes |-> 0]

(* INSERT INTO images (...) VALUES (...): the primary key id is unique     *)
InsertImage(s, id, o) ==
    IF s.images[id] # "absent" THEN Err(s)
    ELSE OkN([s EXCEPT !.images[id] = o], 1)

(* INSERT OR IGNORE INTO tags (name) VALUES (?)                            *)
InsertOrIgnoreTag(s, t) ==
    IF t \in s.tags THEN Ok(s)
    ELSE OkN([s EXCEPT !.tags = @ \cup {t}], 1)

(* INSERT INTO image_tags (image_id, tag_id) SELECT ?, id FROM tags        *)
(* WHERE name = ?: no row when the tag is missing, a constraint error when *)
(* the pair exists or the image row does not.                              *)
InsertImageTag(s, id, t) ==
    IF t \notin s.tags THEN Ok(s)
    ELSE IF <<id, t>> \in s.image_tags \/ s.images[id] = "absent" THEN Err(s)
    ELSE OkN([s EXCEPT !.image_tags = @ \cup {<<id, t>>}], 1)

(* DELETE FROM images WHERE id IN (SELECT it.image_id FROM image_tags it   *)
(* JOIN tags t ON it.tag_id = t.id WHERE t.name = ?); ON DELETE CASCADE    *)
(* removes the image_tags rows of the deleted images.                      *)
DeleteImagesOfTag(s, t) ==
    LET gone == ImagesOfTag(s, t) IN
    OkN([s EXCEPT
           !.images = [i \in ImageIds |-> IF i \in gone THEN "absent" ELSE @[i]],
           !.image_tags = {p \in @ : p[1] \notin gone}],
        Cardinality(gone))

(* DELETE FROM tags WHERE name = ?; ON DELETE CASCADE removes its pairs    *)
DeleteTagRow(s, t) ==
    OkN([s EXCEPT !.tags = @ \ {t},
                  !.image_tags = {p \in @ : p[2] # t}],
        IF t \in s.tags THEN 1 ELSE 0)

(* DELETE FROM images WHERE id = ?                                         *)
DeleteImageRow(s, id) ==
    OkN([s EXCEPT !.images[id] = "absent",
                  !.image_tags = {p \in @ : p[1] # id}],
        IF s.images[id] # "absent" THEN 1 ELSE 0)

(* UPDATE tags SET name = ? WHERE name = ?: tags.name is unique             *)
UpdateTagName(s, old, new) ==
    IF old \notin s.tags THEN Ok(s)
    ELSE IF new = old THEN OkN(s, 1)
    ELSE IF new \in s.tags THEN Err(s)
    ELSE OkN([s EXCEPT !.tags = (@ \ {old}) \cup {new},
                       !.image_tags = {IF q[2] = old THEN <<q[1], new>> ELSE q
                                         : q \in @}],
             1)

(* DELETE FROM image_tags WHERE image_id IN (...) AND tag_id IN            *)
(* (SELECT id FROM tags WHERE name IN (...))                               *)
DeleteImageTags(s, ids, names) ==
    LET gone == {q \in s.image_tags : q[1] \in ids /\ q[2] \in names} IN
    OkN([s EXCEPT !.image_tags = @ \ gone], Cardinality(gone))

(* INSERT OR IGNORE INTO image_tags (image_id, tag_id) SELECT image_id,    *)
(* (SELECT id FROM tags WHERE name = ?) FROM (the ids): OR IGNORE skips a  *)
(* pair that exists and a missing tag (NULL tag_id); a missing image row   *)
(* is a foreign-key error, which OR IGNORE does not cover.                 *)
InsertOrIgnoreImageTags(s, ids, t) ==
    IF t \notin s.tags THEN Ok(s)
    ELSE IF \E i \in ids : s.images[i] = "absent" THEN Err(s)
    ELSE LET new == {<<i, t>> : i \in ids} \ s.image_tags IN
         OkN([s EXCEPT !.image_tags = @ \cup new], Cardinality(new))

Exec(s, st) ==
    CASE st.op = "insertImage" -> InsertImage(s, st.id, st.orientation)
      [] st.op = "updateTagName" -> UpdateTagName(s, st.old, st.new)
      [] st.op = "deleteImageTags" -> DeleteImageTags(s, st.ids, st.names)
      [] st.op = "insertOrIgnoreImageTags" -> InsertOrIgnoreImageTags(s, st.ids, st.tag)
      [] st.op = "insertOrIgnoreTag" -> InsertOrIgnoreTag(s, st.tag)
      [] st.op = "insertImageTag" -> InsertImageTag(s, st.id, st.tag)
      [] st.op = "deleteImagesOfTag" -> DeleteImagesOfTag(s, st.tag)
      [] st.op = "deleteTagRow" -> DeleteTagRow(s, st.tag)
      [] st.op = "deleteImageRow" -> DeleteImageRow(s, st.id)

(* One statement sent on its own (prepare(...).run()): k is the place of   *)
(* the statement in its method, failAt the statement at which the store    *)
(* raises an error of its own (0: none).                                   *)
Run(s, st, k, failAt) == IF failAt = k THEN Err(s) ELSE Exec(s, st)

(* The statements of stmts one after the other, stopping at the first that *)
(* fails: the store reached, and whether all of them ran.                  *)
RECURSIVE RunAll(_, _, _, _)
RunAll(s, stmts, k, failAt) ==
    IF k > Len(stmts) THEN Ok(s)
    ELSE LET r == Run(s, stmts[k], k, failAt) IN
         IF r.ok THEN RunAll(r.s, stmts, k + 1, failAt) ELSE r

(* db.batch(statements): a transaction. Either every statement is applied  *)
(* or, when one fails, none is.                                            *)
Batch(s, stmts, failAt) ==
    LET r == RunAll(s, stmts, 1, failAt) IN
    IF r.ok THEN r ELSE Err(s)

(* ---------------------------------------------------------------------- *)
(* MetadataService                                                         *)
(* ---------------------------------------------------------------------- *)

(* The statements saveImage pushes for one tag of metadata.tags            *)
RECURSIVE TagStatements(_, _, _)
TagStatements(id, tags, k) ==
    IF k > Len(tags) THEN <<>>
    ELSE <<[op |-> "insertOrIgnoreTag", tag |-> tags[k]],
           [op |-> "insertImageTag", id |-> id, tag |-> tags[k]]>>
         \o TagStatements(id, tags, k + 1)

saveImageStatements(metadata) ==
    <<[op |-> "insertImage", id |-> metadata.id,
       orientation |-> metadata.orientation]>>
    \o TagStatements(metadata.id, metadata.tags, 1)

(* the same statements, each sent on its own instead of in one batch       *)
saveImage_Unbatched(s, metadata, failAt) ==
    RunAll(s, saveImageStatements(metadata), 1, failAt)

(* saveImage: the image row, and per tag the tag row and the association,  *)
(* in one db.batch. The result's ok is FALSE when the call throws.         *)
saveImage(s, metadata, failAt) ==
    Batch(s, saveImageStatements(metadata), failAt)

(* createTag: INSERT OR IGNORE INTO tags                                   *)
createTag(s, name, failAt) ==
    Run(s, [op |-> "insertOrIgnoreTag", tag |-> name], 1, failAt)

(* deleteImage: true iff a row was deleted                                 *)
deleteImage(s, id, failAt) ==
    Run(s, [op |-> "deleteImageRow", id |-> id], 1, failAt)

(* the rename done as DELETE of the old tag row and INSERT of the new one:  *)
(* the cascade of the DELETE drops the associations                        *)
renameTag_Recreate(s, oldName, newName, failAt) ==
    IF failAt = 1 THEN Err(s)
    ELSE LET n == Cardinality(ImagesOfTag(s, oldName))
             r1 == Run(s, [op |-> "deleteTagRow", tag |-> oldName], 2, failAt) IN
         IF ~r1.ok \/ oldName \notin s.tags THEN [ok |-> r1.ok, s |-> r1.s, changes |-> n]
         ELSE LET r2 == Exec(r1.s, [op |-> "insertOrIgnoreTag", tag |-> newName]) IN
              [ok |-> r2.ok, s |-> r2.s, changes |-> n]

(* renameTag: the SELECT that counts the associations of oldName, then the *)
(* UPDATE of the tag row, each awaited on its own; changes is the count.   *)
renameTag(s, oldName, newName, failAt) ==
    IF failAt = 1 THEN Err(s)
    ELSE LET n == Cardinality({q \in s.image_tags : q[2] = oldName})
             r == Run(s, [op |-> "updateTagName", old |-> oldName, new |-> newName],
                      2, failAt) IN
         [ok |-> r.ok, s |-> r.s, changes |-> n]

(* getImage: the image row and the names of its tags, read in one batch;   *)
(* null (id NoImage) when there is no row. The order of the names is that  *)
(* of the query result, which nothing fixes: tags is a set.                *)
Null == [id |-> NoImage, orientation |-> NoOrientation]

getImage(s, id) ==
    IF s.images[id] = "absent" THEN Null
    ELSE [id |-> id, orientation |-> s.images[id],
          tags |-> {q[2] : q \in {q \in s.image_tags : q[1] = id}}]

(* updateImage, tags: one DELETE per current tag that is not in the new    *)
(* set, then INSERT OR IGNORE of the tag row and of the association per    *)
(* new tag that is not a current one                                       *)
RECURSIVE RemoveStatements(_, _, _, _)
RemoveStatements(id, oldTags, newTags, k) ==
    IF k > Len(TagNames) THEN <<>>
    ELSE (IF TagNames[k] \in oldTags \ newTags
          THEN <<[op |-> "deleteImageTags", ids |-> {id}, names |-> {TagNames[k]}]>>
          ELSE <<>>)
         \o RemoveStatements(id, oldTags, newTags, k + 1)

RECURSIVE InsertStatements(_, _, _, _)
InsertStatements(id, oldTags, tags, k) ==
    IF k > Len(tags) THEN <<>>
    ELSE (IF tags[k] \notin oldTags /\ \A j \in 1..(k - 1) : tags[j] # tags[k]
          THEN <<[op |-> "insertOrIgnoreTag", tag |-> tags[k]],
                 [op |-> "insertOrIgnoreImageTags", ids |-> {id}, tag |-> tags[k]]>>
          ELSE <<>>)
         \o InsertStatements(id, oldTags, tags, k + 1)

updateImageStatements(id, currentTags, tags) ==
    RemoveStatements(id, currentTags, Range(tags), 1)
    \o InsertStatements(id, currentTags, tags, 1)

(* the record updateImage returns: the row it read with the tags it was    *)
(* given                                                                   *)
updateImageRecord(image, tags) ==
    [id |-> image.id, orientation |-> image.orientation, tags |-> tags]

(* the statements of updateImage run without the current tags: the new     *)
(* tags are added and none is removed                                      *)
updateImage_AddOnly(s, id, tags, failAt) ==
    LET image == getImage(s, id) IN
    IF failAt = 1 THEN [ok |-> FALSE, s |-> s, changes |-> 0, record |-> Null]
    ELSE IF image.id = NoImage THEN [ok |-> TRUE, s |-> s, changes |-> 0, record |-> Null]
    ELSE LET r == Batch(s, InsertStatements(id, {}, tags, 1),
                        IF failAt = 2 THEN 1 ELSE 0)
         IN [ok |-> r.ok, s |-> r.s, changes |-> 0,
             record |-> IF r.ok THEN updateImageRecord(image, tags) ELSE Null]

(* updateImage(id, {tags}): the row and its tags read in one batch         *)
(* (failAt 1: the read throws), null without a row, then the statements in *)
(* one batch if there are any (failAt 2: the batch throws)                 *)
updateImage(s, id, tags, failAt) ==
    LET image == getImage(s, id) IN
    IF failAt = 1 THEN [ok |-> FALSE, s |-> s, changes |-> 0, record |-> Null]
    ELSE IF image.id = NoImage THEN [ok |-> TRUE, s |-> s, changes |-> 0, record |-> Null]
    ELSE LET stmts == updateImageStatements(id, image.tags, tags)
             r == IF Len(stmts) > 0
                  THEN Batch(s, stmts, IF failAt = 2 THEN 1 ELSE 0)
                  ELSE Ok(s)
         IN [ok |-> r.ok, s |-> r.s, changes |-> 0,
             record |-> IF r.ok THEN updateImageRecord(image, tags) ELSE Null]

(* only the tag row is deleted (what deleteTag does)                       *)
deleteTagWithImages_TagOnly(s, name, failAt) ==
    LET r == Run(s, [op |-> "deleteTagRow", tag |-> name], 2, failAt) IN
    [ok |-> r.ok, s |-> r.s, changes |-> Cardinality(ImagesOfTag(s, name))]

(* deleteTagWithImages: two statements, each awaited on its own; changes   *)
(* is deletedImages, the meta.changes of the first.                        *)
deleteTagWithImages(s, name, failAt) ==
    LET r1 == Run(s, [op |-> "deleteImagesOfTag", tag |-> name], 1, failAt) IN
    IF ~r1.ok THEN r1
    ELSE LET r2 == Run(r1.s, [op |-> "deleteTagRow", tag |-> name], 2, failAt) IN
         [ok |-> r2.ok, s |-> r2.s, changes |-> r1.changes]

(* The rows the query of getRandomImage orders by RANDOM(): pairs          *)
(* <<image id, joined tag name>>, the tag "" when the query has no JOIN    *)
(* or, under GROUP BY i.id, for the one row of the group.                  *)
NoTag == ""

(* the names a filter or a rename can hold: those that saveImage and       *)
(* createTag store and one more                                            *)
FilterTags == Tags \cup {TagNames[NumTags + 1]}

Excluded(s, exclude) ==
    {i \in ImageIds : \E t \in Range(exclude) : <<i, t>> \in s.image_tags}

WhereRows(s, tags, exclude, orientation, rows) ==
    {r \in rows :
        /\ Len(tags) > 0 => r[2] \in Range(tags)
        /\ Len(exclude) > 0 => r[1] \notin Excluded(s, exclude)
        /\ orientation # NoOrientation => s.images[r[1]] = orientation}

FromRows(s, tags, exclude) ==
    IF Len(tags) > 0 \/ Len(exclude) > 0
    THEN s.image_tags
    ELSE {<<i, NoTag>> : i \in Present(s)}

(* without the HAVING clause: any one of the requested tags is enough      *)
RandomRows_NoHaving(s, tags, exclude, orientation) ==
    LET rows == WhereRows(s, tags, exclude, orientation, FromRows(s, tags, exclude))
    IN IF Len(tags) > 0 THEN {<<r[1], NoTag>> : r \in rows} ELSE rows

(* without the NOT IN subquery over the excluded tags                      *)
RandomRows_NoExclude(s, tags, exclude, orientation) ==
    LET rows == WhereRows(s, tags, <<>>, orientation, FromRows(s, tags, exclude))
    IN IF Len(tags) > 0
       THEN {<<i, NoTag>> : i \in
               {j \in ImageIds :
                  Cardinality({r[2] : r \in {q \in rows : q[1] = j}}) = Len(tags)}}
       ELSE rows

RandomRows(s, tags, exclude, orientation) ==
    LET rows == WhereRows(s, tags, exclude, orientation, FromRows(s, tags, exclude))
    IN IF Len(tags) > 0
       THEN \* GROUP BY i.id HAVING COUNT(DISTINCT t.name) = tags.length
            {<<i, NoTag>> : i \in
               {j \in ImageIds :
                  Cardinality({r[2] : r \in {q \in rows : q[1] = j}}) = Len(tags)}}
       ELSE rows

(* getRandomImage: the ids it can return, NoImage when the query has no    *)
(* row (ORDER BY RANDOM() LIMIT 1 returns any one row).                    *)
getRandomImage(s, tags, exclude, orientation) ==
    LET rows == RandomRows(s, tags, exclude, orientation) IN
    IF rows = {} THEN {NoImage} ELSE {r[1] : r \in rows}

(* getAllTags: every tag row with COUNT(it.image_id) over its LEFT JOIN,    *)
(* as <<name, count>> (ORDER BY t.name fixes the order of the list).       *)
getAllTags(s) == {<<t, Cardinality(ImagesOfTag(s, t))>> : t \in s.tags}

(* ---------------------------------------------------------------------- *)
(* CompressionService                                                      *)
(* ---------------------------------------------------------------------- *)
(* the formats getImageInfo reports and isSupportedFormat accepts          *)
Formats == {"jpeg", "png", "gif", "webp", "avif"}

(* The bytes of a file, as far as isAnimatedGif tells them apart: 0x21,    *)
(* 0xF9, 0x2C and any other byte (0).                                      *)
Bytes == {33, 249, 44, 0}

(* isAnimatedGif: frameCount counts, over every index but the last one,    *)
(* the pairs 0x21 0xF9 and the bytes 0x2C; true once it exceeds 1.         *)
isAnimatedGif(data) ==
    LET frames == {i \in 1..(Len(data) - 1) :
                     \/ data[i] = 33 /\ data[i + 1] = 249
                     \/ data[i] = 44}
    IN Cardinality(frames) > 1

(* CompressionOptions, as far as they decide which transforms are made     *)
(* (quality, maxWidth and maxHeight only set the arguments of a transform) *)
AllOptions ==
    [preserveAnimation : BOOLEAN, generateWebp : BOOLEAN, generateAvif : BOOLEAN]

DEFAULT_OPTIONS ==
    [preserveAnimation |-> TRUE, generateWebp |-> TRUE, generateAvif |-> TRUE]

(* An error thrown by a transform: the set of the fragments below that     *)
(* its lower-cased message includes.                                       *)
RetryablePatterns ==
    {"network connection lost", "connection lost", "fetch failed", "timeout",
     "timed out", "econnreset", "eai_again", "temporar"}

ErrorMessages ==
    {{"network connection lost", "connection lost"}, {"invalid image"}}

isRetryableTransformError(err) == err \cap RetryablePatterns # {}

(* the outcome of one call of compressToFormat *)
Outcomes ==
    {[ok |-> TRUE, err |-> {}]} \cup {[ok |-> FALSE, err |-> e] : e \in ErrorMessages}

WebpAttempts == 2
AvifAttempts == 3
baseDelayMs == 120

(* comp: where the call is, its arguments, the attempt of withRetry that   *)
(* comes next, the result (original, isAnimated, webp, avif; webp and avif *)
(* say whether the variant is there), and as history every call of a       *)
(* transform (log) and every delay slept (slept).                          *)
NoCompress ==
    [pc |-> "idle", format |-> "", data |-> <<>>, opts |-> DEFAULT_OPTIONS,
     attempt |-> 0, original |-> <<>>, isAnimated |-> FALSE,
     webp |-> FALSE, avif |-> FALSE, ret |-> "none",
     log |-> <<>>, slept |-> <<>>]

(* where compress goes on after the WebP part, and after the dimensions    *)
AfterWebp(c) ==
    IF c.opts.generateAvif
    THEN [c EXCEPT !.pc = "avif", !.attempt = 1]
    ELSE [c EXCEPT !.pc = "done", !.ret = "returned"]

AfterDims(c) ==
    IF c.opts.generateWebp
    THEN [c EXCEPT !.pc = "webp", !.attempt = 1]
    ELSE AfterWebp(c)

(* after the AVIF part, a WebP variant that is missing is tried once more *)
AfterAvif_WebpAgain(c) ==
    IF c.opts.generateWebp /\ ~c.webp
    THEN [c EXCEPT !.pc = "webp", !.attempt = WebpAttempts]
    ELSE [c EXCEPT !.pc = "done", !.ret = "returned"]

AfterAvif(c) == [c EXCEPT !.pc = "done", !.ret = "returned"]

(* compress skips nothing: an animated GIF is transformed like any image   *)
compress_Flatten(format, data, opts) ==
    [NoCompress EXCEPT !.pc = "dims", !.format = format, !.data = data,
                       !.opts = opts, !.original = data]

(* compress up to its first await: an animated GIF with preserveAnimation  *)
(* returns at once, anything else goes on to read the dimensions.          *)
compress(format, data, opts) ==
    LET isAnimated == format = "gif" /\ isAnimatedGif(data) IN
    IF isAnimated /\ opts.preserveAnimation
    THEN [NoCompress EXCEPT !.pc = "done", !.format = format, !.data = data,
                            !.opts = opts, !.original = data,
                            !.isAnimated = TRUE, !.ret = "returned"]
    ELSE [NoCompress EXCEPT !.pc = "dims", !.format = format, !.data = data,
                            !.opts = opts, !.original = data]

(* withRetry retries after any error *)
withRetry_AnyError(c, attempts, outcome) ==
    IF outcome.ok THEN "value"
    ELSE IF c.attempt >= attempts THEN "throw"
    ELSE "retry"

(* One turn of the loop of withRetry with the outcome of fn(): the value   *)
(* is returned, the error is thrown, or the loop sleeps and goes on.       *)
withRetry(c, attempts, outcome) ==
    IF outcome.ok THEN "value"
    ELSE IF c.attempt >= attempts \/ ~isRetryableTransformError(outcome.err) THEN "throw"
    ELSE "retry"

(* the call of the transform is logged; a retry sleeps baseDelayMs *       *)
(* 2^(attempt - 1) and raises attempt                                      *)
CallLogged(c, format, outcome) ==
    [c EXCEPT !.log = Append(@, [format |-> format, attempt |-> c.attempt,
                                 ok |-> outcome.ok, err |-> outcome.err])]

Retried(c) ==
    [c EXCEPT !.slept = Append(@, baseDelayMs * 2 ^ (c.attempt - 1)),
              !.attempt = @ + 1]

(* ---------------------------------------------------------------------- *)
(* Storage paths, image rows and URLs                                      *)
(* ---------------------------------------------------------------------- *)
(* an object key: the directory of the variant and the image id *)
NoPath == [dir |-> "", id |-> NoImage]
Path(dir, id) == [dir |-> dir, id |-> id]

(* the columns format, path_original, path_webp, path_avif of an image row *)
NoRow == [format |-> "", original |-> NoPath, webp |-> NoPath, avif |-> NoPath]

(* a URL: how it is served (the public bucket URL of a key, or the         *)
(* /cdn-cgi/image/ transform to a format of the URL of a key); via "" is   *)
(* the empty string                                                        *)
NoUrl == [via |-> "", format |-> "", path |-> NoPath]

buildPublicUrl(key) == [via |-> "public", format |-> "", path |-> key]

(* buildTransformedUrl over buildCdnCgiOptionsString: with the default     *)
(* quality and no resize limit the options are the format alone            *)
buildTransformedUrl(originalKey, format) ==
    [via |-> "cdn", format |-> format, path |-> originalKey]

(* the webpUrl / avifUrl part of buildImageUrls for one variant            *)
variantUrl(image, variant, generate, preferStoredVariants) ==
    LET stored == IF variant = "webp" THEN image.webp ELSE image.avif
        isMarker == stored # NoPath /\ stored = image.original /\ image.format # variant
        storedUrl == IF preferStoredVariants /\ stored # NoPath /\ ~isMarker
                     THEN buildPublicUrl(stored) ELSE NoUrl
        canTransformFromOriginal == image.format \in {"jpeg", "jpg", "png"}
    IN IF ~generate THEN NoUrl
       ELSE IF storedUrl # NoUrl THEN storedUrl
       ELSE IF image.format = variant THEN buildPublicUrl(image.original)
       ELSE IF ~canTransformFromOriginal THEN NoUrl
       ELSE buildTransformedUrl(image.original, variant)

(* buildImageUrls without the early return for GIF *)
buildImageUrls_NoGif(image, generateWebp, generateAvif, preferStoredVariants) ==
    [original |-> buildPublicUrl(image.original),
     webp |-> variantUrl(image, "webp", generateWebp, preferStoredVariants),
     avif |-> variantUrl(image, "avif", generateAvif, preferStoredVariants)]

(* buildImageUrls(params): generateWebp and generateAvif are those of      *)
(* params.options over DEFAULT_OPTIONS                                     *)
buildImageUrls(image, generateWebp, generateAvif, preferStoredVariants) ==
    IF image.format = "gif"
    THEN [original |-> buildPublicUrl(image.original), webp |-> NoUrl, avif |-> NoUrl]
    ELSE [original |-> buildPublicUrl(image.original),
          webp |-> variantUrl(image, "webp", generateWebp, preferStoredVariants),
          avif |-> variantUrl(image, "avif", generateAvif, preferStoredVariants)]

NoUrls == [original |-> NoUrl, webp |-> NoUrl, avif |-> NoUrl]

(* getBestFormat(Accept): the best format the header accepts, AVIF before  *)
(* WebP before the original                                                *)
getBestFormat(accept) ==
    IF "avif" \in accept THEN "avif"
    ELSE IF "webp" \in accept THEN "webp"
    ELSE "original"

(* s || t on URLs: t when s is the empty string *)
OrElse(s, t) == IF s # NoUrl THEN s ELSE t

(* the target of randomHandler for the image found *)
targetUrl(format, urls, formatParam, accept) ==
    IF format = "gif" THEN urls.original
    ELSE IF formatParam = "original" THEN urls.original
    ELSE IF formatParam = "webp" THEN OrElse(urls.webp, urls.original)
    ELSE IF formatParam = "avif" THEN OrElse(urls.avif, urls.original)
    ELSE LET best == getBestFormat(accept) IN
         IF best = "avif" /\ urls.avif # NoUrl THEN urls.avif
         ELSE IF best = "webp" /\ urls.webp # NoUrl THEN urls.webp
         ELSE urls.original

(* the lists whose cache entries the upload invalidates *)
CachedLists == {"images", "tags"}

(* up: where uploadSingleHandler is, its locals (webp and avif: whether    *)
(* compress gave the variant), the object writes started and not yet       *)
(* settled (pending), whether one of them was rejected (failed), the state *)
(* of the invalidation handed to waitUntil (inval), the lists whose        *)
(* invalidation is still running (lists) and those whose entry has been    *)
(* deleted (cleared), and the response.                                    *)
NoUpload ==
    [pc |-> "idle", id |-> NoImage, format |-> "", orientation |-> NoOrientation,
     tags |-> <<>>, paths |-> NoRow, compression |-> FALSE,
     opts |-> DEFAULT_OPTIONS, webp |-> FALSE, avif |-> FALSE,
     pending |-> {}, failed |-> FALSE, inval |-> "none", lists |-> {},
     cleared |-> {}, resp |-> "none"]

NoLookup ==
    [op |-> "none", id |-> NoImage, orientation |-> NoOrientation,
     formatParam |-> "", accept |-> {}, urls |-> NoUrls, target |-> NoUrl,
     status |-> 0]

ImgIdle ==
    /\ comp = NoCompress
    /\ up = NoUpload
    /\ bucket = {}
    /\ imgrows = [i \in ImageIds |-> NoRow]
    /\ look = NoLookup

(* ---------------------------------------------------------------------- *)
(* The state of the request handlers                                       *)
(* ---------------------------------------------------------------------- *)
Procs == 1..NumProcs

chunkSize == 50

(* the KV entry CacheKeys.tagsList(): absent, or the cached tag list       *)
NoEntry == [present |-> FALSE, value |-> {}]
Entry(v) == [present |-> TRUE, value |-> v]

(* One request: the handler h, where it stands (pc), its parameters, its   *)
(* local variables and its response. log, removed, since and wrote are     *)
(* history: the steps the request has completed, the image rows its        *)
(* deleteTagWithImages removed, and the entries of hist current when it    *)
(* started and when it last wrote to the store.                            *)
IdleProc ==
    [h |-> "idle", pc |-> "idle", name |-> NoTag, newName |-> NoTag,
     ids |-> {}, add |-> <<>>, remove |-> <<>>, paths |-> <<>>, i |-> 0,
     deleted |-> 0, count |-> 0, removed |-> {}, log |-> <<>>,
     resp |-> "none", data |-> {}, since |-> 0, wrote |-> 0]

ReqIdle ==
    /\ cache = NoEntry
    /\ queue = <<>>
    /\ proc = [p \in Procs |-> IdleProc]
    /\ hist = <<{}>>
    /\ acked = 1
    /\ quota = 0
    /\ ImgIdle

(* ---------------------------------------------------------------------- *)
(* Spec: the methods of MetadataService called one at a time               *)
(* ---------------------------------------------------------------------- *)

(* last: the call that produced the current state, the store before it,    *)
(* whether it returned (ok) or threw, and what it returned.                *)
NoCall ==
    [op |-> "none", id |-> NoImage, orientation |-> NoOrientation,
     tags |-> <<>>, exclude |-> <<>>, name |-> NoTag, failAt |-> 0,
     pre |-> EmptyStore, ok |-> TRUE, result |-> 0, ids |-> {}, limit |-> 0,
     objects |-> {}]

Init ==
    /\ db = EmptyStore
    /\ last = NoCall
    /\ ReqIdle

(* generateImageId gives an id no stored image has *)
SaveImage ==
    /\ UNCHANGED reqvars
    /\ last.op = "none"
    /\ \E id \in ImageIds \ Present(db), o \in Orientations,
       tags \in SeqsUpTo(Tags, MaxSaveTags) :
      \E failAt \in 0..(1 + 2 * Len(tags)) :
        LET r == saveImage(db, [id |-> id, orientation |-> o, tags |-> tags], failAt)
        IN /\ db' = r.s
           /\ last' = [NoCall EXCEPT !.op = "saveImage", !.id = id,
                         !.orientation = o, !.tags = tags, !.failAt = failAt,
                         !.pre = db, !.ok = r.ok]

CreateTag ==
    /\ UNCHANGED reqvars
    /\ last.op = "none"
    /\ \E name \in Tags, failAt \in 0..1 :
      LET r == createTag(db, name, failAt)
      IN /\ db' = r.s
         /\ last' = [NoCall EXCEPT !.op = "createTag", !.name = name,
                       !.failAt = failAt, !.pre = db, !.ok = r.ok]

DeleteImage ==
    /\ UNCHANGED reqvars
    /\ last.op = "none"
    /\ \E id \in ImageIds, failAt \in 0..1 :
      LET r == deleteImage(db, id, failAt)
      IN /\ db' = r.s
         /\ last' = [NoCall EXCEPT !.op = "deleteImage", !.id = id,
                       !.failAt = failAt, !.pre = db, !.ok = r.ok,
                       !.result = IF r.ok /\ r.changes > 0 THEN 1 ELSE 0]

DeleteTagWithImages ==
    /\ UNCHANGED reqvars
    /\ last.op = "none"
    /\ \E name \in Tags, failAt \in 0..2 :
      LET r == deleteTagWithImages(db, name, failAt)
      IN /\ db' = r.s
         /\ last' = [NoCall EXCEPT !.op = "deleteTagWithImages", !.name = name,
                       !.failAt = failAt, !.pre = db, !.ok = r.ok,
                       !.result = IF r.ok THEN r.changes ELSE 0]

(* renameTag called with any two names, as the service allows              *)
RenameTag ==
    /\ UNCHANGED reqvars
    /\ last.op = "none"
    /\ \E oldName \in FilterTags, newName \in FilterTags, failAt \in 0..2 :
      LET r == renameTag(db, oldName, newName, failAt)
      IN /\ db' = r.s
         /\ last' = [NoCall EXCEPT !.op = "renameTag", !.name = oldName,
                       !.tags = <<newName>>, !.failAt = failAt, !.pre = db,
                       !.ok = r.ok, !.result = IF r.ok THEN r.changes ELSE 0]

(* updateImage(id, { tags }) *)
UpdateImage ==
    /\ UNCHANGED reqvars
    /\ last.op = "none"
    /\ \E id \in ImageIds, tags \in SeqsUpTo(Tags, MaxSaveTags), failAt \in 0..2 :
      LET r == updateImage(db, id, tags, failAt)
      IN /\ db' = r.s
         /\ last' = [NoCall EXCEPT !.op = "updateImage", !.id = id, !.tags = tags,
                       !.failAt = failAt, !.pre = db, !.ok = r.ok,
                       !.result = r.record]

GetRandomImage ==
    /\ UNCHANGED reqvars
    /\ last.op = "none"
    /\ \E tags \in SeqsUpTo(FilterTags, MaxFilterTags),
       exclude \in SeqsUpTo(FilterTags, MaxFilterTags),
       orientation \in Orientations \cup {NoOrientation} :
      /\ Len(tags) + Len(exclude) <= MaxFilterTags
      /\ \E res \in getRandomImage(db, tags, exclude, orientation) :
           last' = [NoCall EXCEPT !.op = "getRandomImage", !.tags = tags,
                      !.exclude = exclude, !.orientation = orientation,
                      !.pre = db, !.result = res]
      /\ UNCHANGED db

(* the call returns to its caller; the service keeps nothing but the store *)
Return ==
    /\ UNCHANGED reqvars
    /\ last.op # "none"
    /\ last' = NoCall
    /\ UNCHANGED db

Next ==
    \/ SaveImage
    \/ CreateTag
    \/ DeleteImage
    \/ DeleteTagWithImages
    \/ GetRandomImage
    \/ Return

Spec == Init /\ [][Next]_vars

(* ---------------------------------------------------------------------- *)
(* Claims checked under Spec                                               *)
(* ---------------------------------------------------------------------- *)

(* C1: saveImage is all-or-nothing. When it returns, the image row exists  *)
(* and every tag of metadata.tags exists and is associated with the image; *)
(* when it throws at any statement, the store is as before the call: no    *)
(* image row, no new tag row, no association row of that call remains.     *)
C1_SaveImageAtomic ==
    last.op = "saveImage" =>
      /\ last.ok =>
           /\ db.images[last.id] = last.orientation
           /\ \A t \in Range(last.tags) :
                t \in db.tags /\ <<last.id, t>> \in db.image_tags
      /\ ~last.ok => db = last.pre
      /\ db.images[last.id] # "absent" =>
           \A t \in Range(last.tags) : <<last.id, t>> \in db.image_tags

(* a saveImage with two tags that returned, and one that threw after its   *)
(* first tag's statements                                                  *)
C1_Witness ==
    /\ last.op = "saveImage"
    /\ \/ last.ok /\ Cardinality(Range(last.tags)) = 2
       \/ ~last.ok /\ last.failAt = 4

(* C2: deleteTagWithImages(name), run to completion from any store:        *)
(* the images removed are exactly those that were associated with name,    *)
(* name is no longer a tag, deletedImages is the number of removed images, *)
(* every other tag is still there, and its count has dropped by the number *)
(* of removed images it was associated with.                               *)
C2_CascadeCorrect ==
    (last.op = "deleteTagWithImages" /\ last.ok) =>
      LET removed == ImagesOfTag(last.pre, last.name) IN
      /\ Present(db) = Present(last.pre) \ removed
      /\ \A i \in Present(db) : db.images[i] = last.pre.images[i]
      /\ last.name \notin db.tags
      /\ last.result = Cardinality(removed)
      /\ db.tags = last.pre.tags \ {last.name}
      /\ \A t \in db.tags :
           Cardinality(ImagesOfTag(db, t)) =
             Cardinality(ImagesOfTag(last.pre, t))
               - Cardinality(removed \cap ImagesOfTag(last.pre, t))

(* a tag deleted with one image, which shared another tag with an image    *)
(* that stays                                                              *)
C2_Witness ==
    /\ last.op = "deleteTagWithImages" /\ last.ok
    /\ Cardinality(ImagesOfTag(last.pre, last.name)) = 1
    /\ \E t \in db.tags, i \in ImagesOfTag(last.pre, last.name) :
         /\ <<i, t>> \in last.pre.image_tags
         /\ ImagesOfTag(db, t) # {}

(* C9: with a non-empty tag list, getRandomImage returns only an image     *)
(* that has every one of the requested tags.                               *)
C9_TagAndFilter ==
    (last.op = "getRandomImage" /\ Len(last.tags) > 0 /\ last.result # NoImage) =>
      \A t \in Range(last.tags) : <<last.result, t>> \in db.image_tags

(* two tags requested, an image returned, while another image has just one *)
(* of them                                                                 *)
C9_Witness ==
    /\ last.op = "getRandomImage"
    /\ Cardinality(Range(last.tags)) = 2
    /\ last.result # NoImage
    /\ \E i \in Present(db) :
         Cardinality(TagsOfImage(db, i) \cap Range(last.tags)) = 1

(* C10: getRandomImage returns no image that has a tag of the exclude      *)
(* list, and no image whose orientation is not the requested one.          *)
C10_ExcludeAndOrientation ==
    (last.op = "getRandomImage" /\ last.result # NoImage) =>
      /\ \A t \in Range(last.exclude) : <<last.result, t>> \notin db.image_tags
      /\ last.orientation # NoOrientation =>
           db.images[last.result] = last.orientation

(* tags, exclude and orientation all given, an image returned while an     *)
(* excluded image and an image of the other orientation are stored         *)
C10_Witness ==
    /\ last.op = "getRandomImage"
    /\ Len(last.tags) > 0 /\ Len(last.exclude) > 0
    /\ last.orientation # NoOrientation
    /\ last.result # NoImage
    /\ \E i \in Present(db) :
         \/ TagsOfImage(db, i) \cap Range(last.exclude) # {}
         \/ db.images[i] # last.orientation

(* the images of store s that have every tag of tags, no tag of exclude    *)
(* and the orientation asked for                                           *)
Matching(s, tags, exclude, orientation) ==
    {i \in Present(s) :
        /\ \A t \in Range(tags) : <<i, t>> \in s.image_tags
        /\ \A t \in Range(exclude) : <<i, t>> \notin s.image_tags
        /\ orientation # NoOrientation => s.images[i] = orientation}

(* C11: getRandomImage returns no image only when no stored image has all  *)
(* of the requested tags, none of the excluded tags and the requested      *)
(* orientation; an untagged image counts when only exclude is given, and   *)
(* naming a tag twice in tags does not change the matching images.         *)
C11_RandomComplete ==
    (last.op = "getRandomImage" /\ last.result = NoImage) =>
      Matching(db, last.tags, last.exclude, last.orientation) = {}

(* C12: whatever the filters, the rows getRandomImage draws one row from   *)
(* hold no image more than once: every image that has a row there has      *)
(* exactly one, so that an image with more tags is not drawn more often.   *)
C12_RandomUnweighted ==
    last.op = "getRandomImage" =>
      LET rows == RandomRows(db, last.tags, last.exclude, last.orientation) IN
      \A i \in {r[1] : r \in rows} :
        /\ i \in Matching(db, last.tags, last.exclude, last.orientation)
        /\ Cardinality({r \in rows : r[1] = i}) = 1

(* ---------------------------------------------------------------------- *)
(* SpecReq: the tag handlers as concurrent requests. A request gives way   *)
(* to the others at each await; what lies between two awaits is one step.  *)
(* ---------------------------------------------------------------------- *)

Max(a, b) == IF a >= b THEN a ELSE b
Min(a, b) == IF a <= b THEN a ELSE b

(* the ids of S in ascending order *)
RECURSIVE SetToSeq(_)
SetToSeq(S) ==
    IF S = {} THEN <<>>
    ELSE LET m == CHOOSE x \in S : \A y \in S : x <= y
         IN <<m>> \o SetToSeq(S \ {m})

(* a store left by earlier uploads: image i has the first i tags *)
SeedStore ==
    [images |-> [i \in ImageIds |-> "landscape"],
     tags |-> Tags,
     image_tags |-> {q \in ImageIds \X Tags :
                       \E k \in 1..Min(q[1], NumTags) : q[2] = TagNames[k]}]

InitReq ==
    /\ db \in {EmptyStore, SeedStore}
    /\ last = NoCall
    /\ cache = NoEntry
    /\ queue = <<>>
    /\ proc = [p \in Procs |-> IdleProc]
    /\ hist = <<getAllTags(db)>>
    /\ acked = 1
    /\ quota = MaxRequests
    /\ ImgIdle

(* hist after the store has become s *)
HistAfter(s) ==
    IF getAllTags(s) = hist[Len(hist)] THEN hist ELSE Append(hist, getAllTags(s))

(* a new request is taken by the first worker slot that is free *)
Free(p) == proc[p].pc = "idle"

Begin(p) ==
    /\ Free(p)
    /\ \A q \in Procs : q < p => ~Free(q)
    /\ quota > 0
    /\ quota' = quota - 1

Started(h, pc) == [IdleProc EXCEPT !.h = h, !.pc = pc, !.since = acked]

(* errorResponse(...), from a validation or from the catch block *)
Failed(r) == [r EXCEPT !.pc = "done", !.resp = "error"]

(* successResponse(data) *)
Succeeded(r, data) == [r EXCEPT !.pc = "done", !.resp = "success", !.data = data]

(* a statement of request p on the store: it raises (fail) or executes *)
Stmt(st, fail) == IF fail THEN Err(db) ELSE Exec(db, st)

(* ------------------------------ tagsHandler ---------------------------- *)
StartTags(p) ==
    /\ Begin(p)
    /\ proc' = [proc EXCEPT ![p] = Started("tags", "t_get")]
    /\ UNCHANGED <<db, last, cache, queue, hist, acked>> /\ UNCHANGED imgvars

(* cache.get: a hit is the response *)
TagsGet(p) ==
    /\ proc[p].pc = "t_get"
    /\ proc' = [proc EXCEPT ![p] =
                  IF cache.present THEN Succeeded(@, cache.value)
                  ELSE [@ EXCEPT !.pc = "t_query"]]
    /\ UNCHANGED <<db, last, cache, queue, hist, acked, quota>> /\ UNCHANGED imgvars

(* metadata.getAllTags() *)
TagsQuery(p) ==
    /\ proc[p].pc = "t_query"
    /\ \E fail \in BOOLEAN :
         proc' = [proc EXCEPT ![p] =
                    IF fail THEN Failed(@)
                    ELSE [@ EXCEPT !.pc = "t_set", !.data = getAllTags(db)]]
    /\ UNCHANGED <<db, last, cache, queue, hist, acked, quota>> /\ UNCHANGED imgvars

(* cache.set(cacheKey, responseData), then the response *)
TagsSet(p) ==
    /\ proc[p].pc = "t_set"
    /\ cache' = Entry(proc[p].data)
    /\ proc' = [proc EXCEPT ![p] = Succeeded(@, @.data)]
    /\ UNCHANGED <<db, last, queue, hist, acked, quota>> /\ UNCHANGED imgvars

(* ---------------------------- createTagHandler ------------------------- *)
(* the name is not tested: an empty name goes on to createTag *)
StartCreate_Unchecked(p) ==
    /\ Begin(p)
    /\ \E name \in Tags \cup {NoTag} :
         proc' = [proc EXCEPT ![p] =
                    [Started("create", "c_db") EXCEPT !.name = name]]
    /\ UNCHANGED <<db, last, cache, queue, hist, acked>> /\ UNCHANGED imgvars

(* name is the sanitized name; NoTag when nothing is left of it *)
StartCreate(p) ==
    /\ Begin(p)
    /\ \E name \in Tags \cup {NoTag} :
         proc' = [proc EXCEPT ![p] =
                    IF name = NoTag THEN Failed(Started("create", "c_db"))
                    ELSE [Started("create", "c_db") EXCEPT !.name = name]]
    /\ UNCHANGED <<db, last, cache, queue, hist, acked>> /\ UNCHANGED imgvars

(* metadata.createTag(name) *)
CreateDb(p) ==
    /\ proc[p].pc = "c_db"
    /\ \E fail \in BOOLEAN :
         LET r == Stmt([op |-> "insertOrIgnoreTag", tag |-> proc[p].name], fail) IN
         /\ db' = r.s
         /\ hist' = HistAfter(r.s)
         /\ proc' = [proc EXCEPT ![p] =
                       IF ~r.ok THEN Failed([@ EXCEPT !.log = Append(@, "dbfail")])
                       ELSE [@ EXCEPT !.pc = "c_inv", !.log = Append(@, "db"),
                                      !.wrote = Len(HistAfter(r.s))]]
    /\ UNCHANGED <<last, cache, queue, acked, quota>> /\ UNCHANGED imgvars

(* responds without waiting for the invalidation, which never runs *)
CreateInvalidate_Skipped(p) ==
    /\ proc[p].pc = "c_inv"
    /\ acked' = Max(acked, proc[p].wrote)
    /\ proc' = [proc EXCEPT ![p] =
                  Succeeded(@, {<<proc[p].name, 0>>})]
    /\ UNCHANGED <<db, last, cache, queue, hist, quota>> /\ UNCHANGED imgvars

(* await cache.invalidateTagsList(), then the response *)
CreateInvalidate(p) ==
    /\ proc[p].pc = "c_inv"
    /\ cache' = NoEntry
    /\ acked' = Max(acked, proc[p].wrote)
    /\ proc' = [proc EXCEPT ![p] =
                  Succeeded([@ EXCEPT !.log = Append(@, "invTags")],
                            {<<proc[p].name, 0>>})]
    /\ UNCHANGED <<db, last, queue, hist, quota>> /\ UNCHANGED imgvars

(* ---------------------------- renameTagHandler ------------------------- *)
StartRename(p) ==
    /\ Begin(p)
    /\ \E old \in Tags, new \in Tags \cup {NoTag} :
         proc' = [proc EXCEPT ![p] =
                    LET r == [Started("rename", "r_count") EXCEPT
                                !.name = old, !.newName = new]
                    IN IF new = NoTag \/ old = new
                       THEN Failed(Started("rename", "r_count"))
                       ELSE r]
    /\ UNCHANGED <<db, last, cache, queue, hist, acked>> /\ UNCHANGED imgvars

(* renameTag: SELECT COUNT( * ) of the pairs of oldName *)
RenameCount(p) ==
    /\ proc[p].pc = "r_count"
    /\ \E fail \in BOOLEAN :
         proc' = [proc EXCEPT ![p] =
                    IF fail THEN Failed([@ EXCEPT !.log = Append(@, "dbfail")])
                    ELSE [@ EXCEPT !.pc = "r_update",
                            !.count = Cardinality(ImagesOfTag(db, proc[p].name))]]
    /\ UNCHANGED <<db, last, cache, queue, hist, acked, quota>> /\ UNCHANGED imgvars

(* the error of the UPDATE is swallowed and the request goes on *)
RenameUpdate_Ignored(p) ==
    /\ proc[p].pc = "r_update"
    /\ \E fail \in BOOLEAN :
         LET r == Stmt([op |-> "updateTagName", old |-> proc[p].name,
                        new |-> proc[p].newName], fail) IN
         /\ db' = r.s
         /\ hist' = HistAfter(r.s)
         /\ proc' = [proc EXCEPT ![p] =
                       [@ EXCEPT !.pc = "r_inv", !.log = Append(@, "db"),
                                 !.wrote = Len(HistAfter(r.s))]]
    /\ UNCHANGED <<last, cache, queue, acked, quota>> /\ UNCHANGED imgvars

(* renameTag: UPDATE tags SET name = ? WHERE name = ? *)
RenameUpdate(p) ==
    /\ proc[p].pc = "r_update"
    /\ \E fail \in BOOLEAN :
         LET r == Stmt([op |-> "updateTagName", old |-> proc[p].name,
                        new |-> proc[p].newName], fail) IN
         /\ db' = r.s
         /\ hist' = HistAfter(r.s)
         /\ proc' = [proc EXCEPT ![p] =
                       IF ~r.ok THEN Failed([@ EXCEPT !.log = Append(@, "dbfail")])
                       ELSE [@ EXCEPT !.pc = "r_inv", !.log = Append(@, "db"),
                                      !.wrote = Len(HistAfter(r.s))]]
    /\ UNCHANGED <<last, cache, queue, acked, quota>> /\ UNCHANGED imgvars

(* await cache.invalidateAfterTagChange() *)
RenameInvalidate(p) ==
    /\ proc[p].pc = "r_inv"
    /\ cache' = NoEntry
    /\ proc' = [proc EXCEPT ![p] =
                  [@ EXCEPT !.pc = "r_tags",
                            !.log = @ \o <<"invTags", "invImages">>]]
    /\ UNCHANGED <<db, last, queue, hist, acked, quota>> /\ UNCHANGED imgvars

(* metadata.getAllTags(), then the response with the tag found under the   *)
(* new name, or { name: newName, count: affectedCount }                    *)
RenameTags(p) ==
    /\ proc[p].pc = "r_tags"
    /\ \E fail \in BOOLEAN :
         /\ proc' = [proc EXCEPT ![p] =
                       IF fail THEN Failed(@)
                       ELSE LET found == {q \in getAllTags(db) : q[1] = proc[p].newName}
                            IN Succeeded(@, IF found # {} THEN found
                                            ELSE {<<proc[p].newName, proc[p].count>>})]
         /\ acked' = IF fail THEN acked ELSE Max(acked, proc[p].wrote)
    /\ UNCHANGED <<db, last, cache, queue, hist, quota>> /\ UNCHANGED imgvars

(* ---------------------------- deleteTagHandler ------------------------- *)
StartDelete(p) ==
    /\ Begin(p)
    /\ \E name \in Tags :
         proc' = [proc EXCEPT ![p] =
                    [Started("delete", "d_paths") EXCEPT !.name = name]]
    /\ UNCHANGED <<db, last, cache, queue, hist, acked>> /\ UNCHANGED imgvars

(* 1. metadata.getImagePathsByTag(name) *)
DeletePaths(p) ==
    /\ proc[p].pc = "d_paths"
    /\ \E fail \in BOOLEAN :
         proc' = [proc EXCEPT ![p] =
                    IF fail THEN Failed(@)
                    ELSE [@ EXCEPT !.pc = "d_images",
                            !.paths = SetToSeq(ImagesOfTag(db, proc[p].name))]]
    /\ UNCHANGED <<db, last, cache, queue, hist, acked, quota>> /\ UNCHANGED imgvars

(* a failure of the statement is swallowed and the request goes on *)
DeleteImages_Swallowed(p) ==
    /\ proc[p].pc = "d_images"
    /\ \E fail \in BOOLEAN :
         LET r == Stmt([op |-> "deleteImagesOfTag", tag |-> proc[p].name], fail) IN
         /\ db' = r.s
         /\ hist' = HistAfter(r.s)
         /\ proc' = [proc EXCEPT ![p] =
                       IF ~r.ok THEN [@ EXCEPT !.pc = "d_tag", !.log = Append(@, "dbfail")]
                       ELSE [@ EXCEPT !.pc = "d_tag", !.log = Append(@, "images"),
                                      !.removed = ImagesOfTag(db, proc[p].name),
                                      !.deleted = r.changes,
                                      !.wrote = Len(HistAfter(r.s))]]
    /\ UNCHANGED <<last, cache, queue, acked, quota>> /\ UNCHANGED imgvars

(* 2. deleteTagWithImages, first statement: DELETE FROM images WHERE id IN *)
DeleteImages(p) ==
    /\ proc[p].pc = "d_images"
    /\ \E fail \in BOOLEAN :
         LET r == Stmt([op |-> "deleteImagesOfTag", tag |-> proc[p].name], fail) IN
         /\ db' = r.s
         /\ hist' = HistAfter(r.s)
         /\ proc' = [proc EXCEPT ![p] =
                       IF ~r.ok THEN Failed([@ EXCEPT !.log = Append(@, "dbfail")])
                       ELSE [@ EXCEPT !.pc = "d_tag", !.log = Append(@, "images"),
                                      !.removed = ImagesOfTag(db, proc[p].name),
                                      !.deleted = r.changes,
                                      !.wrote = Len(HistAfter(r.s))]]
    /\ UNCHANGED <<last, cache, queue, acked, quota>> /\ UNCHANGED imgvars

(* the queue step is taken before the cache has been invalidated *)
DeleteTag_ThenSend(p) ==
    /\ proc[p].pc = "d_tag"
    /\ \E fail \in BOOLEAN :
         LET r == Stmt([op |-> "deleteTagRow", tag |-> proc[p].name], fail) IN
         /\ db' = r.s
         /\ hist' = HistAfter(r.s)
         /\ proc' = [proc EXCEPT ![p] =
                       IF ~r.ok THEN Failed([@ EXCEPT !.log = Append(@, "dbfail")])
                       ELSE [@ EXCEPT !.pc = "d_send", !.log = Append(@, "tag"),
                                      !.wrote = Len(HistAfter(r.s))]]
    /\ UNCHANGED <<last, cache, queue, acked, quota>> /\ UNCHANGED imgvars

(* 2. deleteTagWithImages, second statement: DELETE FROM tags *)
DeleteTag(p) ==
    /\ proc[p].pc = "d_tag"
    /\ \E fail \in BOOLEAN :
         LET r == Stmt([op |-> "deleteTagRow", tag |-> proc[p].name], fail) IN
         /\ db' = r.s
         /\ hist' = HistAfter(r.s)
         /\ proc' = [proc EXCEPT ![p] =
                       IF ~r.ok THEN Failed([@ EXCEPT !.log = Append(@, "dbfail")])
                       ELSE [@ EXCEPT !.pc = "d_inv", !.log = Append(@, "tag"),
                                      !.wrote = Len(HistAfter(r.s))]]
    /\ UNCHANGED <<last, cache, queue, acked, quota>> /\ UNCHANGED imgvars

(* 3. await cache.invalidateAfterTagChange(); with no image path read, the *)
(* response follows at once                                                *)
DeleteInvalidate(p) ==
    /\ proc[p].pc = "d_inv"
    /\ cache' = NoEntry
    /\ LET r == [proc[p] EXCEPT !.log = @ \o <<"invTags", "invImages">>] IN
       IF Len(proc[p].paths) > 0
       THEN /\ proc' = [proc EXCEPT ![p] = [r EXCEPT !.pc = "d_send"]]
            /\ UNCHANGED acked
       ELSE /\ proc' = [proc EXCEPT ![p] = Succeeded(r, {<<r.name, r.deleted>>})]
            /\ acked' = Max(acked, r.wrote)
    /\ UNCHANGED <<db, last, queue, hist, quota>> /\ UNCHANGED imgvars

(* 4. DELETE_QUEUE.send of the next chunkSize image paths; after the last  *)
(* chunk, the response. live and log in the message are history: the ids   *)
(* of the message whose image row exists when it is sent, and the steps    *)
(* the request had completed by then.                                      *)
DeleteSend(p) ==
    /\ proc[p].pc = "d_send"
    /\ \E fail \in BOOLEAN :
         LET r == proc[p]
             upto == Min(r.i + chunkSize, Len(r.paths))
             job == [type |-> "delete_tag_images", tagName |-> r.name,
                     ids |-> {r.paths[k] : k \in (r.i + 1)..upto},
                     live |-> {r.paths[k] : k \in (r.i + 1)..upto} \cap Present(db),
                     log |-> r.log]
             sent == [r EXCEPT !.i = @ + chunkSize, !.log = Append(@, "send")]
         IN IF fail
            THEN /\ proc' = [proc EXCEPT ![p] =
                               Failed([r EXCEPT !.log = Append(@, "sendfail")])]
                 /\ UNCHANGED <<queue, acked>>
            ELSE /\ queue' = Append(queue, job)
                 /\ IF sent.i < Len(r.paths)
                    THEN /\ proc' = [proc EXCEPT ![p] = sent]
                         /\ UNCHANGED acked
                    ELSE /\ proc' = [proc EXCEPT ![p] =
                                       Succeeded(sent, {<<r.name, r.deleted>>})]
                         /\ acked' = Max(acked, r.wrote)
    /\ UNCHANGED <<db, last, cache, hist, quota>> /\ UNCHANGED imgvars

(* ---------------------------- batchTagsHandler ------------------------- *)
RECURSIVE EnsureStatements(_, _)
EnsureStatements(tags, k) ==
    IF k > Len(tags) THEN <<>>
    ELSE <<[op |-> "insertOrIgnoreTag", tag |-> tags[k]]>>
         \o EnsureStatements(tags, k + 1)

RECURSIVE AddStatements(_, _, _)
AddStatements(ids, tags, k) ==
    IF k > Len(tags) THEN <<>>
    ELSE <<[op |-> "insertOrIgnoreImageTags", ids |-> ids, tag |-> tags[k]]>>
         \o AddStatements(ids, tags, k + 1)

(* the step of batchUpdateTags that follows the steps before pc *)
BatchNext(r, pc) ==
    CASE pc = "start" /\ Len(r.add) > 0 -> "b_ensure"
      [] pc \in {"start", "b_ensure"} /\ Len(r.remove) > 0 -> "b_remove"
      [] pc \in {"start", "b_ensure", "b_remove"} /\ Len(r.add) > 0 -> "b_add"
      [] OTHER -> "b_inv"

(* add and remove are the sanitized, non-empty names *)
StartBatch(p) ==
    /\ Begin(p)
    /\ \E ids \in SUBSET ImageIds,
          add \in SeqsUpTo(Tags, MaxBatchTags),
          remove \in SeqsUpTo(Tags, MaxBatchTags) :
         proc' = [proc EXCEPT ![p] =
                    LET r == [Started("batch", "start") EXCEPT
                                !.ids = ids, !.add = add, !.remove = remove]
                    IN IF ids = {} \/ (Len(add) = 0 /\ Len(remove) = 0)
                       THEN Failed(Started("batch", "start"))
                       ELSE [r EXCEPT !.pc = BatchNext(r, "start")]]
    /\ UNCHANGED <<db, last, cache, queue, hist, acked>> /\ UNCHANGED imgvars

(* a step of batchUpdateTags that runs the statements stmts in one batch   *)
BatchStep(p, pc, stmts) ==
    /\ proc[p].pc = pc
    /\ \E fail \in BOOLEAN :
         LET r == IF fail THEN Err(db) ELSE Batch(db, stmts, 0) IN
         /\ db' = r.s
         /\ hist' = HistAfter(r.s)
         /\ proc' = [proc EXCEPT ![p] =
                       IF ~r.ok THEN Failed([@ EXCEPT !.log = Append(@, "dbfail")])
                       ELSE [@ EXCEPT !.pc = BatchNext(proc[p], pc), !.log = Append(@, pc),
                                      !.wrote = Len(HistAfter(r.s))]]
    /\ UNCHANGED <<last, cache, queue, acked, quota>> /\ UNCHANGED imgvars

(* 1. INSERT OR IGNORE INTO tags for every tag of addTags, in one batch *)
BatchEnsure(p) == BatchStep(p, "b_ensure", EnsureStatements(proc[p].add, 1))

(* 2. one DELETE over the image ids and the tags of removeTags *)
BatchRemove(p) ==
    BatchStep(p, "b_remove",
              <<[op |-> "deleteImageTags", ids |-> proc[p].ids,
                 names |-> Range(proc[p].remove)]>>)

(* 3. one INSERT OR IGNORE per tag of addTags, in one batch *)
BatchAdd(p) == BatchStep(p, "b_add", AddStatements(proc[p].ids, proc[p].add, 1))

(* await cache.invalidateAfterTagChange(), then the response *)
BatchInvalidate(p) ==
    /\ proc[p].pc = "b_inv"
    /\ cache' = NoEntry
    /\ acked' = Max(acked, proc[p].wrote)
    /\ proc' = [proc EXCEPT ![p] =
                  Succeeded([@ EXCEPT !.log = @ \o <<"invTags", "invImages">>], {})]
    /\ UNCHANGED <<db, last, queue, hist, quota>> /\ UNCHANGED imgvars

(* the response has been sent and the request is over *)
Finish(p) ==
    /\ proc[p].pc = "done"
    /\ proc' = [proc EXCEPT ![p] = IdleProc]
    /\ UNCHANGED <<db, last, cache, queue, hist, acked, quota>> /\ UNCHANGED imgvars

NextReq ==
    \E p \in Procs :
      \/ StartTags(p) \/ TagsGet(p) \/ TagsQuery(p) \/ TagsSet(p)
      \/ StartCreate(p) \/ CreateDb(p) \/ CreateInvalidate(p)
      \/ StartRename(p) \/ RenameCount(p) \/ RenameUpdate(p)
      \/ RenameInvalidate(p) \/ RenameTags(p)
      \/ StartDelete(p) \/ DeletePaths(p) \/ DeleteImages(p) \/ DeleteTag(p)
      \/ DeleteInvalidate(p) \/ DeleteSend(p)
      \/ StartBatch(p) \/ BatchEnsure(p) \/ BatchRemove(p) \/ BatchAdd(p)
      \/ BatchInvalidate(p)
      \/ Finish(p)

SpecReq == InitReq /\ [][NextReq]_vars

(* ---------------------------------------------------------------------- *)
(* SpecTags: the tags list read through the cache while tags are created,  *)
(* renamed and deleted (batch requests are left to SpecReq)                *)
(* ---------------------------------------------------------------------- *)
InitTags ==
    /\ db \in {EmptyStore, SeedStore}
    /\ last = NoCall
    /\ cache = NoEntry
    /\ queue = <<>>
    /\ proc = [p \in Procs |-> IdleProc]
    /\ hist = <<getAllTags(db)>>
    /\ acked = 1
    /\ quota = MaxTagRequests
    /\ ImgIdle

NextTags ==
    \E p \in Procs :
      \/ StartTags(p) \/ TagsGet(p) \/ TagsQuery(p) \/ TagsSet(p)
      \/ StartCreate(p) \/ CreateDb(p) \/ CreateInvalidate(p)
      \/ StartRename(p) \/ RenameCount(p) \/ RenameUpdate(p)
      \/ RenameInvalidate(p) \/ RenameTags(p)
      \/ StartDelete(p) \/ DeletePaths(p) \/ DeleteImages(p) \/ DeleteTag(p)
      \/ DeleteInvalidate(p) \/ DeleteSend(p)
      \/ Finish(p)

SpecTags == InitTags /\ [][NextTags]_vars


(* ---------------------------------------------------------------------- *)
(* Claims checked under SpecReq and SpecTags                               *)
(* ---------------------------------------------------------------------- *)
Logged(log, e) == \E k \in 1..Len(log) : log[k] = e

(* e is in log, and every f of log stands before the first e *)
Before(log, f, e) ==
    \A k \in 1..Len(log) : log[k] = e => \E j \in 1..(k - 1) : log[j] = f

(* C3: deleteTagWithImages(name) is one atomic unit. No state, seen by a   *)
(* concurrent caller or left by a failed statement, has the images of tag  *)
(* name deleted by the call while the tag row name is still there.         *)
C3_DeleteTagAtomic ==
    \A p \in Procs :
      (/\ proc[p].h = "delete"
       /\ Logged(proc[p].log, "images")
       /\ proc[p].removed # {}
       /\ ~Logged(proc[p].log, "tag"))
      => proc[p].name \notin db.tags

(* C4: in the delete-tag request, the cache is invalidated only after both *)
(* statements of the metadata deletion, a message is sent to the queue     *)
(* only after the invalidation, and the success response comes after the   *)
(* deletion, the invalidation and the sending of every chunk.              *)
C4_DeleteOrder ==
    /\ \A p \in Procs :
         proc[p].h = "delete" =>
           LET log == proc[p].log IN
           /\ Before(log, "images", "tag")
           /\ Before(log, "tag", "invTags")
           /\ Before(log, "tag", "invImages")
           /\ Before(log, "invTags", "send")
           /\ Before(log, "invImages", "send")
           /\ proc[p].resp = "success" =>
                /\ Logged(log, "tag")
                /\ Logged(log, "invTags") /\ Logged(log, "invImages")
                /\ proc[p].i >= Len(proc[p].paths)
                /\ Len(proc[p].paths) > 0 => Logged(log, "send")
    /\ \A k \in 1..Len(queue) :
         /\ Logged(queue[k].log, "images") /\ Logged(queue[k].log, "tag")
         /\ Logged(queue[k].log, "invTags") /\ Logged(queue[k].log, "invImages")

(* a delete-tag request that has answered success after sending a message  *)
C4_Witness ==
    \E p \in Procs :
      /\ proc[p].h = "delete" /\ proc[p].resp = "success"
      /\ Len(proc[p].paths) > 0
      /\ Len(queue) > 0

(* C5: when a statement of deleteTagWithImages raises, the delete-tag      *)
(* request answers with a failure and has sent nothing to the queue.       *)
C5_DeleteFailureNoJobs ==
    /\ \A p \in Procs :
         (proc[p].h = "delete" /\ Logged(proc[p].log, "dbfail")) =>
           /\ proc[p].pc = "done" /\ proc[p].resp = "error"
           /\ ~Logged(proc[p].log, "send")
    /\ \A k \in 1..Len(queue) : ~Logged(queue[k].log, "dbfail")

(* the second statement raised, after the first had deleted images that    *)
(* getImagePathsByTag had read                                             *)
C5_Witness ==
    \E p \in Procs :
      /\ proc[p].h = "delete"
      /\ proc[p].log = <<"images", "dbfail">>
      /\ proc[p].removed # {} /\ Len(proc[p].paths) > 0
      /\ proc[p].resp = "error"

(* C6: no deletion message is enqueued for an image whose metadata row     *)
(* still exists, whatever runs concurrently with the delete-tag request.   *)
C6_NoJobForLiveImage ==
    \A k \in 1..Len(queue) : queue[k].live = {}

(* C7: once a tag mutation has returned success, a tags-list request       *)
(* started later answers with the tag list of a store state that includes  *)
(* the mutation (one of hist from the entry acknowledged at its start).    *)
C7_NoStaleTagsList ==
    \A p \in Procs :
      (proc[p].h = "tags" /\ proc[p].resp = "success") =>
        \E v \in proc[p].since..Len(hist) : hist[v] = proc[p].data

(* C8: a tag mutation handler answers success only after it has            *)
(* invalidated the cache: the tags list for create, the tags list and the  *)
(* images list for rename, delete and batch.                               *)
C8_InvalidateBeforeSuccess ==
    \A p \in Procs :
      proc[p].resp = "success" =>
        /\ proc[p].h \in {"create", "rename", "delete", "batch"} =>
             Logged(proc[p].log, "invTags")
        /\ proc[p].h \in {"rename", "delete", "batch"} =>
             Logged(proc[p].log, "invImages")

(* a create and a rename, delete or batch request that answered success    *)
C8_Witness ==
    \E p, q \in Procs :
      /\ proc[p].h = "create" /\ proc[p].resp = "success"
      /\ proc[q].h \in {"rename", "delete", "batch"} /\ proc[q].resp = "success"

(* ---------------------------------------------------------------------- *)
(* Renames called on the service directly, on a store that saveImage and   *)
(* createTag have filled                                                   *)
(* ---------------------------------------------------------------------- *)
InitRename ==
    /\ db \in {EmptyStore, SeedStore}
    /\ last = NoCall
    /\ ReqIdle

NextRename ==
    \/ SaveImage
    \/ CreateTag
    \/ RenameTag
    \/ Return

SpecRename == InitRename /\ [][NextRename]_vars

(* C20: renameTag(old, new), with old stored and new not, returns          *)
(* normally with: the images of new are those old had, old is no stored    *)
(* tag, every other tag keeps its images, every image row is as before,    *)
(* and the count returned is the number of images old had.                 *)
C20_RenamePreserves ==
    (/\ last.op = "renameTag" /\ last.failAt = 0
     /\ last.name \in last.pre.tags /\ last.tags[1] \notin last.pre.tags) =>
      /\ last.ok
      /\ ImagesOfTag(db, last.tags[1]) = ImagesOfTag(last.pre, last.name)
      /\ last.name \notin db.tags
      /\ db.tags = (last.pre.tags \ {last.name}) \cup {last.tags[1]}
      /\ \A t \in last.pre.tags \ {last.name} :
           ImagesOfTag(db, t) = ImagesOfTag(last.pre, t)
      /\ db.images = last.pre.images
      /\ last.result = Cardinality(ImagesOfTag(last.pre, last.name))

(* a rename of a tag that two images have, one of them with another tag *)
C20_Witness ==
    /\ last.op = "renameTag" /\ last.ok
    /\ last.tags[1] \notin last.pre.tags
    /\ Cardinality(ImagesOfTag(last.pre, last.name)) = 2
    /\ \E t \in last.pre.tags \ {last.name} : ImagesOfTag(last.pre, t) # {}

(* ---------------------------------------------------------------------- *)
(* SpecCompress: calls of CompressionService.compress                      *)
(* ---------------------------------------------------------------------- *)
(* compress(data, format, options) is called *)
Compress ==
    /\ comp.pc = "idle"
    /\ \E format \in Formats, data \in SeqsUpTo(Bytes, MaxBytes), opts \in AllOptions :
         comp' = compress(format, data, opts)
    /\ UNCHANGED <<db, last, tagvars, up, bucket, imgrows, look>>

(* await ImageProcessor.getImageDimensions(data): it returns or throws,    *)
(* and a throw leaves compress                                             *)
CompressDims ==
    /\ comp.pc = "dims"
    /\ \E ok \in BOOLEAN :
         comp' = IF ok THEN AfterDims(comp)
                 ELSE [comp EXCEPT !.pc = "done", !.ret = "thrown"]
    /\ UNCHANGED <<db, last, tagvars, up, bucket, imgrows, look>>

(* an error thrown by withRetry for WebP leaves compress                   *)
WebpAttempt_NoCatch ==
    /\ comp.pc = "webp"
    /\ \E outcome \in Outcomes :
         LET c == CallLogged(comp, "webp", outcome)
             r == withRetry(comp, WebpAttempts, outcome) IN
         comp' = IF r = "value" THEN AfterWebp([c EXCEPT !.webp = TRUE])
                 ELSE IF r = "throw" THEN [c EXCEPT !.pc = "done", !.ret = "thrown"]
                 ELSE Retried(c)
    /\ UNCHANGED <<db, last, tagvars, up, bucket, imgrows, look>>

(* one call of compressToFormat for image/webp under withRetry with 2      *)
(* attempts; .catch turns the error withRetry throws into null             *)
WebpAttempt ==
    /\ comp.pc = "webp"
    /\ \E outcome \in Outcomes :
         LET c == CallLogged(comp, "webp", outcome)
             r == withRetry(comp, WebpAttempts, outcome) IN
         comp' = IF r = "value" THEN AfterWebp([c EXCEPT !.webp = TRUE])
                 ELSE IF r = "throw" THEN AfterWebp(c)
                 ELSE Retried(c)
    /\ UNCHANGED <<db, last, tagvars, up, bucket, imgrows, look>>

(* the same for image/avif, with 3 attempts *)
AvifAttempt ==
    /\ comp.pc = "avif"
    /\ \E outcome \in Outcomes :
         LET c == CallLogged(comp, "avif", outcome)
             r == withRetry(comp, AvifAttempts, outcome) IN
         comp' = IF r = "value" THEN AfterAvif([c EXCEPT !.avif = TRUE])
                 ELSE IF r = "throw" THEN AfterAvif(c)
                 ELSE Retried(c)
    /\ UNCHANGED <<db, last, tagvars, up, bucket, imgrows, look>>

(* the caller has the result; the service keeps nothing of the call       *)
CompressReturn ==
    /\ comp.pc = "done"
    /\ up.pc = "idle"
    /\ comp' = NoCompress
    /\ UNCHANGED <<db, last, tagvars, up, bucket, imgrows, look>>

InitCompress ==
    /\ db = EmptyStore
    /\ last = NoCall
    /\ ReqIdle

NextCompress ==
    \/ Compress
    \/ CompressDims
    \/ WebpAttempt
    \/ AvifAttempt
    \/ CompressReturn

SpecCompress == InitCompress /\ [][NextCompress]_vars

(* the calls of the transform for one format, as indexes of comp.log *)
CallsOf(format) == {k \in 1..Len(comp.log) : comp.log[k].format = format}

Transient(k) == ~comp.log[k].ok /\ isRetryableTransformError(comp.log[k].err)

(* C17: in one compress call the WebP transform is called at most 2 times  *)
(* and the AVIF transform at most 3 times; a call of a transform is        *)
(* followed by another for the same format only if it failed with a        *)
(* transient error, so that a success or a non-transient failure is the    *)
(* last call for its format (the only one when it is the first); the       *)
(* attempt counter of the loop never passes its bound.                     *)
C17_RetryBound ==
    /\ Cardinality(CallsOf("webp")) <= 2
    /\ Cardinality(CallsOf("avif")) <= 3
    /\ \A k \in 1..Len(comp.log) :
         /\ comp.log[k].attempt = Cardinality({j \in CallsOf(comp.log[k].format) : j <= k})
         /\ (\E j \in CallsOf(comp.log[k].format) : j > k) => Transient(k)
         /\ (~Transient(k) /\ comp.log[k].attempt = 1) =>
              CallsOf(comp.log[k].format) = {k}
    /\ comp.pc = "webp" => comp.attempt \in 1..2 /\ comp.attempt = Cardinality(CallsOf("webp")) + 1
    /\ comp.pc = "avif" => comp.attempt \in 1..3 /\ comp.attempt = Cardinality(CallsOf("avif")) + 1
    /\ Len(comp.slept) <= 3

(* WebP stopped by a non-transient failure at its first call, AVIF called  *)
(* 3 times                                                                 *)
C17_Witness ==
    /\ comp.pc = "done"
    /\ \E k \in CallsOf("webp") : ~comp.log[k].ok /\ ~Transient(k)
    /\ Cardinality(CallsOf("webp")) = 1
    /\ Cardinality(CallsOf("avif")) = 3

(* C18: whatever the outcomes of the WebP and the AVIF transforms are, the *)
(* compress call returns; its result has the WebP variant iff a WebP call  *)
(* succeeded, the AVIF variant iff an AVIF call succeeded, and with        *)
(* generateAvif the AVIF transform is called whatever became of WebP.      *)
C18_FormatsIndependent ==
    /\ comp.ret = "thrown" => comp.log = <<>>
    /\ comp.pc = "done" =>
         /\ comp.webp <=> \E k \in CallsOf("webp") : comp.log[k].ok
         /\ comp.avif <=> \E k \in CallsOf("avif") : comp.log[k].ok
         /\ (comp.log # <<>> /\ comp.opts.generateAvif) => CallsOf("avif") # {}

(* WebP failed at both of its attempts and AVIF succeeded                  *)
C18_Witness ==
    /\ comp.pc = "done" /\ comp.ret = "returned"
    /\ Cardinality(CallsOf("webp")) = 2 /\ ~comp.webp
    /\ comp.avif

(* C19: for a source detected as animated and preserveAnimation true,      *)
(* compress calls no transform and returns isAnimated true, the original   *)
(* bytes and neither variant.                                              *)
C19_AnimationPreserved ==
    (/\ comp.pc # "idle" /\ comp.format = "gif" /\ isAnimatedGif(comp.data)
     /\ comp.opts.preserveAnimation) =>
      /\ comp.pc = "done" /\ comp.ret = "returned"
      /\ comp.log = <<>>
      /\ comp.isAnimated
      /\ comp.original = comp.data
      /\ ~comp.webp /\ ~comp.avif

(* an animated GIF, with both variants asked for *)
C19_Witness ==
    /\ comp.pc = "done" /\ comp.isAnimated
    /\ comp.opts.generateWebp /\ comp.opts.generateAvif
    /\ Len(comp.data) > 0

(* ---------------------------------------------------------------------- *)
(* SpecLookup: random-image lookups over image rows saved with any paths   *)
(* ---------------------------------------------------------------------- *)
(* what the columns path_webp and path_avif of image id can hold: nothing, *)
(* the original key (a marker), or a key of their own                      *)
VariantPaths(id, variant) == {NoPath, Path("original", id), Path(variant, id)}

(* saveImage called with the metadata of an image of any format and paths  *)
SaveImageRow ==
    /\ \E id \in ImageIds \ Present(db), o \in Orientations, format \in Formats :
       \E webp \in VariantPaths(id, "webp"), avif \in VariantPaths(id, "avif") :
         LET r == saveImage(db, [id |-> id, orientation |-> o, tags |-> <<>>], 0) IN
         /\ db' = r.s
         /\ imgrows' = [imgrows EXCEPT ![id] =
                          [format |-> format, original |-> Path("original", id),
                           webp |-> webp, avif |-> avif]]
    /\ UNCHANGED <<last, tagvars, comp, up, bucket, look>>

(* GET /api/random: the orientation is the parameter or the one of the     *)
(* device, format and Accept are any; the query can fail                   *)
RandomLookup ==
    /\ look.op = "none"
    /\ \E orientation \in Orientations, formatParam \in {"original", "webp", "avif", ""},
          accept \in SUBSET {"avif", "webp"}, fail \in BOOLEAN :
         LET req == [NoLookup EXCEPT !.op = "random", !.orientation = orientation,
                                     !.formatParam = formatParam, !.accept = accept]
         IN IF fail THEN look' = [req EXCEPT !.status = 500]
            ELSE \E id \in getRandomImage(db, <<>>, <<>>, orientation) :
                   IF id = NoImage THEN look' = [req EXCEPT !.status = 404]
                   ELSE LET image == imgrows[id]
                            urls == buildImageUrls(image, image.webp # NoPath,
                                                   image.avif # NoPath, TRUE)
                            target == targetUrl(image.format, urls, formatParam, accept)
                        IN look' = [req EXCEPT !.id = id, !.urls = urls,
                                      !.target = target,
                                      !.status = IF target = NoUrl THEN 404 ELSE 302]
    /\ UNCHANGED <<db, last, tagvars, comp, up, bucket, imgrows>>

(* buildImageUrls called with no options on a stored image *)
BuildImageUrls ==
    /\ look.op = "none"
    /\ \E id \in Present(db) :
         look' = [NoLookup EXCEPT !.op = "buildImageUrls", !.id = id,
                    !.urls = buildImageUrls(imgrows[id], DEFAULT_OPTIONS.generateWebp,
                                            DEFAULT_OPTIONS.generateAvif, TRUE)]
    /\ UNCHANGED <<db, last, tagvars, comp, up, bucket, imgrows>>

(* the response is sent; the handler keeps nothing                         *)
LookupReturn ==
    /\ look.op # "none"
    /\ look' = NoLookup
    /\ UNCHANGED <<db, last, tagvars, comp, up, bucket, imgrows>>

InitLookup ==
    /\ db = EmptyStore
    /\ last = NoCall
    /\ ReqIdle

NextLookup ==
    \/ SaveImageRow
    \/ RandomLookup
    \/ BuildImageUrls
    \/ LookupReturn

SpecLookup == InitLookup /\ [][NextLookup]_vars

(* C15: with no format pinned, the lookup redirects to the first of AVIF,  *)
(* WebP, original that the Accept header supports and whose URL is not     *)
(* empty; with AVIF and WebP accepted, an empty AVIF URL and a non-empty    *)
(* WebP URL, that is the WebP URL.                                         *)
C15_FormatNegotiation ==
    (/\ look.op = "random" /\ look.id # NoImage /\ look.formatParam = ""
     /\ imgrows[look.id].format # "gif") =>
      look.target =
        IF "avif" \in look.accept /\ look.urls.avif # NoUrl THEN look.urls.avif
        ELSE IF "webp" \in look.accept /\ look.urls.webp # NoUrl THEN look.urls.webp
        ELSE look.urls.original

(* C16: an image of format JPEG or PNG with no stored WebP (AVIF) path     *)
(* resolves to a /cdn-cgi/image/ transform URL for WebP (AVIF), never to   *)
(* an empty URL, in the random lookup and in buildImageUrls called         *)
(* directly.                                                               *)
C16_TransformSynthesized ==
    (/\ look.op \in {"random", "buildImageUrls"} /\ look.id # NoImage
     /\ imgrows[look.id].format \in {"jpeg", "png"}) =>
      /\ imgrows[look.id].webp = NoPath =>
           look.urls.webp = buildTransformedUrl(imgrows[look.id].original, "webp")
      /\ imgrows[look.id].avif = NoPath =>
           look.urls.avif = buildTransformedUrl(imgrows[look.id].original, "avif")

(* ---------------------------------------------------------------------- *)
(* SpecUpload: uploadSingleHandler, with the compress call it makes, and   *)
(* random-image lookups                                                    *)
(* ---------------------------------------------------------------------- *)
(* StorageService.generatePaths(id, orientation, format): one key per      *)
(* variant; for a GIF the variant keys may be there or be empty            *)
generatePaths(id, format) ==
    LET all == [format |-> format, original |-> Path("original", id),
                webp |-> Path("webp", id), avif |-> Path("avif", id)]
    IN IF format = "gif"
       THEN {all, [all EXCEPT !.webp = NoPath, !.avif = NoPath]}
       ELSE {all}

(* storage.upload(key, bytes, contentType), bytes being the file or a      *)
(* compressed variant                                                      *)
Put(key, bytes) == [path |-> key, bytes |-> bytes]

(* the bucket after a put: the object of the key is replaced *)
Stored(b, w) == {o \in b : o.path # w.path} \cup {w}

(* the tags of an upload *)
UploadTags == SeqsUpTo({TagNames[1]}, 1)

(* POST /api/upload/single up to its first await on storage: validation,   *)
(* id and paths, and the object writes and the compress call it starts     *)
UploadStart ==
    /\ up.pc = "idle" /\ comp.pc = "idle"
    /\ quota > 0
    /\ quota' = quota - 1
    /\ \E file \in BOOLEAN, format \in Formats \cup {"bmp"}, o \in Orientations,
          tags \in UploadTags, compression \in BOOLEAN, opts \in AllOptions :
         IF ~file \/ format \notin Formats
         THEN /\ up' = [NoUpload EXCEPT !.pc = "done", !.resp = "error"]
              /\ comp' = comp
         ELSE LET id == 1 + MaxUploads - quota IN
              \E paths \in generatePaths(id, format) :
                LET u == [NoUpload EXCEPT !.id = id, !.format = format,
                            !.orientation = o, !.tags = tags, !.paths = paths,
                            !.compression = compression, !.opts = opts]
                    original == Put(paths.original, "original")
                IN IF format # "gif" /\ compression
                   THEN /\ up' = [u EXCEPT !.pc = "first", !.pending = {original}]
                        /\ comp' = compress(format, <<>>, opts)
                   ELSE IF format # "gif"
                   THEN /\ up' = [u EXCEPT !.pc = "variants", !.pending =
                                    {original, Put(paths.webp, "original"),
                                     Put(paths.avif, "original")}]
                        /\ comp' = comp
                   ELSE /\ up' = [u EXCEPT !.pc = "variants", !.pending = {original}]
                        /\ comp' = comp
    /\ UNCHANGED <<db, last, cache, queue, proc, hist, acked, bucket, imgrows, look>>

(* an object write settles: the object is stored, or the write is rejected *)
UploadPut ==
    /\ \E w \in up.pending, ok \in BOOLEAN :
         /\ bucket' = IF ok THEN Stored(bucket, w) ELSE bucket
         /\ up' = [up EXCEPT !.pending = @ \ {w}, !.failed = @ \/ ~ok]
    /\ UNCHANGED <<db, last, tagvars, comp, imgrows, look>>

(* a variant that compress did not give is not written *)
UploadFirst_NoFallback ==
    /\ up.pc = "first"
    /\ IF up.failed \/ comp.ret = "thrown"
       THEN /\ up' = [up EXCEPT !.pc = "done", !.resp = "error"]
            /\ comp' = comp
       ELSE /\ up.pending = {} /\ comp.pc = "done"
            /\ up' = [up EXCEPT !.pc = "variants", !.webp = comp.webp, !.avif = comp.avif,
                        !.pending =
                          (IF comp.webp THEN {Put(up.paths.webp, "webp")} ELSE {})
                          \cup (IF comp.avif THEN {Put(up.paths.avif, "avif")} ELSE {})]
            /\ comp' = NoCompress
    /\ UNCHANGED <<db, last, tagvars, bucket, imgrows, look>>

(* Promise.all of the original write and compress: it rejects as soon as   *)
(* one of the two does, and then the handler answers with the error; when  *)
(* both are done the writes of the two variants start, each with the       *)
(* compressed bytes or, without them, with the file itself                 *)
UploadFirst ==
    /\ up.pc = "first"
    /\ IF up.failed \/ comp.ret = "thrown"
       THEN /\ up' = [up EXCEPT !.pc = "done", !.resp = "error"]
            /\ comp' = comp
       ELSE /\ up.pending = {} /\ comp.pc = "done"
            /\ up' = [up EXCEPT !.pc = "variants", !.webp = comp.webp, !.avif = comp.avif,
                        !.pending =
                          {Put(up.paths.webp, IF comp.webp THEN "webp" ELSE "original"),
                           Put(up.paths.avif, IF comp.avif THEN "avif" ELSE "original")}]
            /\ comp' = NoCompress
    /\ UNCHANGED <<db, last, tagvars, bucket, imgrows, look>>

(* the metadata is saved without awaiting the object writes *)
UploadVariants_NoWait ==
    /\ up.pc = "variants"
    /\ up' = [up EXCEPT !.pc = "save"]
    /\ UNCHANGED <<db, last, tagvars, comp, bucket, imgrows, look>>

(* the object writes awaited before the metadata: a rejected one makes the *)
(* handler answer with the error                                           *)
UploadVariants ==
    /\ up.pc = "variants"
    /\ IF up.failed
       THEN up' = [up EXCEPT !.pc = "done", !.resp = "error"]
       ELSE /\ up.pending = {}
            /\ up' = [up EXCEPT !.pc = "save"]
    /\ UNCHANGED <<db, last, tagvars, comp, bucket, imgrows, look>>

(* metadata.saveImage, then the invalidation handed to waitUntil and the   *)
(* success response                                                        *)
UploadSave ==
    /\ up.pc = "save"
    /\ \E failAt \in 0..(1 + 2 * Len(up.tags)) :
         LET r == saveImage(db, [id |-> up.id, orientation |-> up.orientation,
                                 tags |-> up.tags], failAt)
         IN /\ db' = r.s
            /\ IF r.ok
               THEN /\ imgrows' = [imgrows EXCEPT ![up.id] = up.paths]
                    /\ up' = [up EXCEPT !.pc = "done", !.resp = "success",
                                !.inval = "scheduled", !.lists = CachedLists]
               ELSE /\ imgrows' = imgrows
                    /\ up' = [up EXCEPT !.pc = "done", !.resp = "error"]
    /\ UNCHANGED <<last, tagvars, comp, bucket, look>>

(* a failing invalidation makes the request answer with the error *)
UploadInvalidate_Fatal ==
    /\ \E list \in up.lists, ok \in BOOLEAN :
         /\ cache' = IF ok /\ list = "tags" THEN NoEntry ELSE cache
         /\ up' = [up EXCEPT !.lists = @ \ {list},
                     !.cleared = IF ok THEN @ \cup {list} ELSE @,
                     !.resp = IF ok THEN @ ELSE "error",
                     !.inval = IF ~ok THEN "failed"
                               ELSE IF @ = "scheduled" /\ up.lists = {list} THEN "done"
                               ELSE @]
    /\ UNCHANGED <<db, last, queue, proc, hist, acked, quota, comp, bucket, imgrows, look>>

(* one of the two invalidations handed to waitUntil settles, after the     *)
(* response: the entry of the list is deleted, or the deletion fails.      *)
(* inval is the state of their Promise.all: failed once one has failed,    *)
(* done when both have succeeded. cache is the entry of the tags list.     *)
UploadInvalidate ==
    /\ \E list \in up.lists, ok \in BOOLEAN :
         /\ cache' = IF ok /\ list = "tags" THEN NoEntry ELSE cache
         /\ up' = [up EXCEPT !.lists = @ \ {list},
                     !.cleared = IF ok THEN @ \cup {list} ELSE @,
                     !.inval = IF ~ok THEN "failed"
                               ELSE IF @ = "scheduled" /\ up.lists = {list} THEN "done"
                               ELSE @]
    /\ UNCHANGED <<db, last, queue, proc, hist, acked, quota, comp, bucket, imgrows, look>>

(* the request is over and nothing of it is still running *)
UploadEnd ==
    /\ up.pc = "done"
    /\ up.pending = {} /\ up.lists = {}
    /\ comp.pc \in {"idle", "done"}
    /\ up' = NoUpload
    /\ comp' = NoCompress
    /\ UNCHANGED <<db, last, tagvars, bucket, imgrows, look>>

InitUpload ==
    /\ db = EmptyStore
    /\ last = NoCall
    /\ cache = NoEntry
    /\ queue = <<>>
    /\ proc = [p \in Procs |-> IdleProc]
    /\ hist = <<{}>>
    /\ acked = 1
    /\ quota = MaxUploads
    /\ ImgIdle

NextUpload ==
    \/ UploadStart
    \/ UploadPut
    \/ CompressDims
    \/ WebpAttempt
    \/ AvifAttempt
    \/ UploadFirst
    \/ UploadVariants
    \/ UploadSave
    \/ UploadInvalidate
    \/ UploadEnd
    \/ RandomLookup
    \/ LookupReturn

SpecUpload == InitUpload /\ [][NextUpload]_vars

(* ---------------------------------------------------------------------- *)
(* Claims about uploads and their resolution                               *)
(* ---------------------------------------------------------------------- *)

(* the URLs randomHandler builds for a stored row *)
RowUrls(id) ==
    buildImageUrls(imgrows[id], imgrows[id].webp # NoPath, imgrows[id].avif # NoPath, TRUE)

(* an object is stored under the key *)
HasObject(key) == \E o \in bucket : o.path = key

(* the random lookup found an image of one of the formats *)
Found(formats) ==
    /\ look.op = "random"
    /\ look.id # NoImage
    /\ imgrows[look.id].format \in formats

(* C13: a non-GIF upload that answers with success and has no WebP from    *)
(* compress (it failed, was disabled, or was not asked for) has written    *)
(* the bytes of the file under the WebP key, and the same for AVIF; every  *)
(* non-GIF row then resolves to the public URLs of its WebP and AVIF keys, *)
(* which are not empty and have an object behind them; and a random lookup *)
(* that found a non-GIF image redirects (302) to a URL that is not empty.  *)
C13_VariantFallback ==
    /\ (up.pc = "done" /\ up.resp = "success" /\ up.format # "gif") =>
         /\ ~up.webp => Put(up.paths.webp, "original") \in bucket
         /\ ~up.avif => Put(up.paths.avif, "original") \in bucket
    /\ \A id \in ImageIds :
         (imgrows[id] # NoRow /\ imgrows[id].format # "gif") =>
           /\ RowUrls(id).webp = buildPublicUrl(imgrows[id].webp)
           /\ RowUrls(id).avif = buildPublicUrl(imgrows[id].avif)
           /\ RowUrls(id).webp # NoUrl /\ RowUrls(id).avif # NoUrl
           /\ HasObject(imgrows[id].webp) /\ HasObject(imgrows[id].avif)
    /\ Found(Formats \ {"gif"}) =>
         /\ look.status = 302
         /\ look.target # NoUrl
         /\ look.urls.webp # NoUrl /\ look.urls.avif # NoUrl

(* an upload with compression whose WebP failed and whose AVIF did not has *)
(* answered, and a lookup asking for WebP is redirected to the WebP key,   *)
(* where the bytes of the file are                                         *)
C13_Witness ==
    /\ up.pc = "done" /\ up.resp = "success"
    /\ up.compression /\ ~up.webp /\ up.avif
    /\ Found(Formats \ {"gif"}) /\ look.id = up.id
    /\ look.formatParam = "webp"
    /\ look.target = buildPublicUrl(up.paths.webp)
    /\ Put(up.paths.webp, "original") \in bucket
    /\ Put(up.paths.avif, "avif") \in bucket

(* C14: a random lookup that found a GIF redirects to the public URL of    *)
(* its original whatever the format parameter and the Accept header, and   *)
(* the WebP and AVIF URLs built for it are empty; the upload of a GIF      *)
(* starts and stores no object but the original.                           *)
C14_GifOriginal ==
    /\ Found({"gif"}) =>
         /\ look.status = 302
         /\ look.target = buildPublicUrl(imgrows[look.id].original)
         /\ look.urls.webp = NoUrl /\ look.urls.avif = NoUrl
    /\ \A id \in ImageIds :
         imgrows[id].format = "gif" =>
           /\ RowUrls(id).webp = NoUrl /\ RowUrls(id).avif = NoUrl
           /\ \A o \in bucket : o.path.id = id => o.path.dir = "original"
    /\ up.format = "gif" =>
         \A o \in bucket \cup up.pending : o.path.id = up.id => o.path = up.paths.original

(* a GIF whose row has keys for the variants was found by a lookup that    *)
(* asked for WebP and accepts AVIF                                         *)
C14_Witness ==
    /\ Found({"gif"})
    /\ imgrows[look.id].webp # NoPath
    /\ look.formatParam = "webp" /\ "avif" \in look.accept
    /\ HasObject(imgrows[look.id].original)

(* ---------------------------------------------------------------------- *)
(* Claims about rejected requests, checked under SpecReq                   *)
(* ---------------------------------------------------------------------- *)

(* request p takes a step from the place pc of handler h *)
StepOf(p, h, pc) ==
    /\ proc[p].h = h /\ proc[p].pc \in pc
    /\ proc'[p] # proc[p]

InitValidate == InitUpload

NextValidate ==
    \/ UploadStart
    \/ UploadPut
    \/ CompressDims
    \/ WebpAttempt
    \/ AvifAttempt
    \/ UploadFirst
    \/ UploadVariants
    \/ UploadSave
    \/ UploadInvalidate
    \/ UploadEnd
    \/ \E p \in Procs :
         \/ StartTags(p) \/ TagsGet(p) \/ TagsQuery(p) \/ TagsSet(p)
         \/ StartCreate(p) \/ CreateDb(p) \/ CreateInvalidate(p)
         \/ StartRename(p) \/ RenameCount(p) \/ RenameUpdate(p)
         \/ RenameInvalidate(p) \/ RenameTags(p)
         \/ StartBatch(p) \/ BatchEnsure(p) \/ BatchRemove(p) \/ BatchAdd(p)
         \/ BatchInvalidate(p)
         \/ Finish(p)

SpecValidate == InitValidate /\ [][NextValidate]_vars

(* nothing is written to the metadata store, object storage, the cache or  *)
(* the queue, and no object write or compression is started                *)
NoWrite ==
    /\ db' = db /\ imgrows' = imgrows /\ bucket' = bucket
    /\ cache' = cache /\ queue' = queue
    /\ comp' = comp /\ up'.pending = up.pending

(* C22: a request that is answered in its first step, by a validation, is  *)
(* answered with a failure and that step writes nothing; and a request     *)
(* that goes past its first step has passed the validation: a create has a *)
(* non-empty name, a rename a non-empty new name that differs from the old *)
(* one, a batch some image ids and some tags, an upload a supported        *)
(* format. So an invalid request is rejected before any write.             *)
C22_ValidationBeforeWrites ==
    [][/\ \A p \in Procs :
            /\ (proc[p].pc = "idle" /\ proc'[p].pc = "done") =>
                 /\ proc'[p].resp = "error"
                 /\ NoWrite
            /\ (proc[p].pc = "idle" /\ proc'[p].pc \notin {"idle", "done"}) =>
                 /\ proc'[p].h = "create" => proc'[p].name # NoTag
                 /\ proc'[p].h = "rename" =>
                      proc'[p].newName # NoTag /\ proc'[p].newName # proc'[p].name
                 /\ proc'[p].h = "batch" =>
                      /\ proc'[p].ids # {}
                      /\ Len(proc'[p].add) + Len(proc'[p].remove) > 0
       /\ (up.pc = "idle" /\ up'.pc = "done") =>
            /\ up'.resp = "error"
            /\ NoWrite
       /\ (up.pc = "idle" /\ up'.pc \notin {"idle", "done"}) =>
            /\ up'.format \in Formats
            /\ Put(up'.paths.original, "original") \in up'.pending]_vars

(* an upload with no file or of an unsupported format has been rejected    *)
(* before an id was generated, with nothing in object storage or in the    *)
(* metadata store                                                          *)
C22_Witness ==
    /\ up.pc = "done" /\ up.resp = "error"
    /\ up.id = NoImage
    /\ bucket = {} /\ db = EmptyStore /\ queue = <<>> /\ ~cache.present

(* ---------------------------------------------------------------------- *)
(* SpecUpdate: updateImage among the calls that create images and tags,    *)
(* one call at a time                                                      *)
(* ---------------------------------------------------------------------- *)
InitUpdate ==
    /\ db \in {EmptyStore, SeedStore}
    /\ last = NoCall
    /\ ReqIdle

NextUpdate ==
    \/ SaveImage
    \/ CreateTag
    \/ UpdateImage
    \/ Return

SpecUpdate == InitUpdate /\ [][NextUpdate]_vars

(* C23: an updateImage(id, {tags: T}) that returns, on an image that has a *)
(* row, leaves the image associated with exactly the tags of T, every tag  *)
(* of T stored, the other images and the image rows as they were, and      *)
(* returns the record a getImage(id) issued next returns (same row, same   *)
(* tag set); on an id with no row it returns null and the store is as      *)
(* before; and when it throws the store is as before.                      *)
C23_UpdateReplacesTags ==
    last.op = "updateImage" =>
      /\ (last.ok /\ last.pre.images[last.id] # "absent") =>
           /\ getImage(db, last.id).tags = Range(last.tags)
           /\ Range(last.tags) \subseteq db.tags
           /\ last.result.id = getImage(db, last.id).id
           /\ last.result.orientation = getImage(db, last.id).orientation
           /\ Range(last.result.tags) = getImage(db, last.id).tags
           /\ db.images = last.pre.images
           /\ \A i \in ImageIds \ {last.id} :
                getImage(db, i) = getImage(last.pre, i)
      /\ (last.ok /\ last.pre.images[last.id] = "absent") =>
           /\ last.result = Null
           /\ db = last.pre
      /\ ~last.ok => db = last.pre

(* an update that took one tag from an image, kept none and gave it a tag  *)
(* that was not stored, while another image has tags                       *)
C23_Witness ==
    /\ last.op = "updateImage" /\ last.ok
    /\ last.pre.images[last.id] # "absent"
    /\ getImage(last.pre, last.id).tags # {}
    /\ getImage(last.pre, last.id).tags \cap Range(last.tags) = {}
    /\ Range(last.tags) \ last.pre.tags # {}
    /\ \E q \in db.image_tags : q[1] # last.id

(* ---------------------------------------------------------------------- *)
(* SpecCallers: updateImage called by concurrent callers. A call gives way *)
(* to the others at its two awaits, the batch that reads and the batch     *)
(* that writes. In proc, ids is the image, add the tags given, data the    *)
(* record read and then the record returned; resp is "success" for a       *)
(* record, "null" for null and "error" for a throw. hist is the sequence   *)
(* of the contents of image_tags.                                          *)
(* ---------------------------------------------------------------------- *)

(* images uploaded without tags *)
BareStore == [EmptyStore EXCEPT !.images = [i \in ImageIds |-> "landscape"]]

InitCallers ==
    /\ db \in {BareStore, SeedStore}
    /\ last = NoCall
    /\ cache = NoEntry
    /\ queue = <<>>
    /\ proc = [p \in Procs |-> IdleProc]
    /\ hist = <<db.image_tags>>
    /\ acked = 1
    /\ quota = MaxRequests
    /\ ImgIdle

StartUpdate(p) ==
    /\ Begin(p)
    /\ \E id \in ImageIds, tags \in SeqsUpTo(Tags, MaxSaveTags) :
         proc' = [proc EXCEPT ![p] =
                    [Started("update", "u_read") EXCEPT !.ids = {id}, !.add = tags]]
    /\ UNCHANGED <<db, last, cache, queue, hist, acked>> /\ UNCHANGED imgvars

(* the batch of the two SELECTs; without a row the call returns null *)
UpdateRead(p) ==
    /\ proc[p].pc = "u_read"
    /\ \E fail \in BOOLEAN, id \in proc[p].ids :
         LET image == getImage(db, id) IN
         proc' = [proc EXCEPT ![p] =
                    IF fail THEN Failed(@)
                    ELSE IF image.id = NoImage
                    THEN [@ EXCEPT !.pc = "done", !.resp = "null"]
                    ELSE [@ EXCEPT !.pc = "u_write", !.data = {image}]]
    /\ UNCHANGED <<db, last, cache, queue, hist, acked, quota>> /\ UNCHANGED imgvars

(* the batch of the statements built from the tags read, if there are any, *)
(* then the record made of the row read and the tags given                 *)
UpdateWrite(p) ==
    /\ proc[p].pc = "u_write"
    /\ \E fail \in BOOLEAN, id \in proc[p].ids, image \in proc[p].data :
         LET stmts == updateImageStatements(id, image.tags, proc[p].add)
             r == IF Len(stmts) = 0 THEN Ok(db)
                  ELSE IF fail THEN Err(db)
                  ELSE Batch(db, stmts, 0)
         IN /\ db' = r.s
            /\ hist' = IF r.s.image_tags = db.image_tags THEN hist
                       ELSE Append(hist, r.s.image_tags)
            /\ proc' = [proc EXCEPT ![p] =
                          IF ~r.ok THEN Failed([@ EXCEPT !.log = Append(@, "dbfail")])
                          ELSE Succeeded([@ EXCEPT !.log = Append(@, "db")],
                                         {updateImageRecord(image, proc[p].add)})]
    /\ UNCHANGED <<last, cache, queue, acked, quota>> /\ UNCHANGED imgvars

NextCallers ==
    \E p \in Procs :
      \/ StartUpdate(p)
      \/ UpdateRead(p)
      \/ UpdateWrite(p)
      \/ Finish(p)

SpecCallers == InitCallers /\ [][NextCallers]_vars

(* the call of p has returned a record *)
Updated(p) ==
    proc[p].h = "update" /\ proc[p].pc = "done" /\ proc[p].resp = "success"

(* the tags image id had when image_tags was pairs *)
TagsIn(pairs, id) == {q[2] : q \in {q \in pairs : q[1] = id}}

(* C24: when every call made is an updateImage on one image and all have   *)
(* returned a record, the tags stored for the image are the tags given to  *)
(* one of the calls; and the tags of the record a call returned are the    *)
(* tags stored for the image at some point of the execution.               *)
C24_UpdateAtomic ==
    /\ ( /\ quota = 0
         /\ \A p \in Procs : Updated(p)
         /\ \A p, q \in Procs : proc[p].ids = proc[q].ids ) =>
         \E p \in Procs : \A id \in proc[p].ids :
           TagsIn(db.image_tags, id) = Range(proc[p].add)
    /\ \A p \in Procs :
         Updated(p) =>
           \A id \in proc[p].ids, rec \in proc[p].data :
             \E k \in 1..Len(hist) : TagsIn(hist[k], id) = Range(rec.tags)

(* ---------------------------------------------------------------------- *)
(* SpecBatch: batchUpdateTags called directly, one call at a time          *)
(* ---------------------------------------------------------------------- *)

(* the bulk add done before the bulk remove *)
batchUpdateTags_AddFirst(s, imageIds, addTags, removeTags, failAt) ==
    IF imageIds = {} THEN Ok(s)
    ELSE LET r1 == IF Len(addTags) = 0 THEN Ok(s)
                   ELSE IF failAt = 1 THEN Err(s)
                   ELSE Batch(s, EnsureStatements(addTags, 1), 0)
             r2 == IF ~r1.ok \/ Len(addTags) = 0 THEN r1
                   ELSE IF failAt = 3 THEN Err(r1.s)
                   ELSE LET b == Batch(r1.s, AddStatements(imageIds, addTags, 1), 0)
                        IN [b EXCEPT !.s = IF b.ok THEN b.s ELSE r1.s]
             r3 == IF ~r2.ok \/ Len(removeTags) = 0 THEN r2
                   ELSE Run(r2.s, [op |-> "deleteImageTags", ids |-> imageIds,
                                   names |-> Range(removeTags)], 2, failAt)
         IN [ok |-> r3.ok, s |-> r3.s, changes |-> Cardinality(imageIds)]

(* batchUpdateTags: nothing for no image id; else 1. the tag rows of       *)
(* addTags in one batch, 2. one DELETE for removeTags, 3. the associations *)
(* of addTags in one batch, each step awaited on its own and skipped when  *)
(* its list is empty. failAt is the step that throws (0: none); the store  *)
(* of the result is the one the call leaves. It returns the number of ids. *)
batchUpdateTags(s, imageIds, addTags, removeTags, failAt) ==
    IF imageIds = {} THEN Ok(s)
    ELSE LET r1 == IF Len(addTags) = 0 THEN Ok(s)
                   ELSE IF failAt = 1 THEN Err(s)
                   ELSE Batch(s, EnsureStatements(addTags, 1), 0)
             r2 == IF ~r1.ok \/ Len(removeTags) = 0 THEN r1
                   ELSE Run(r1.s, [op |-> "deleteImageTags", ids |-> imageIds,
                                   names |-> Range(removeTags)], 2, failAt)
             r3 == IF ~r2.ok \/ Len(addTags) = 0 THEN r2
                   ELSE IF failAt = 3 THEN Err(r2.s)
                   ELSE LET b == Batch(r2.s, AddStatements(imageIds, addTags, 1), 0)
                        IN [b EXCEPT !.s = IF b.ok THEN b.s ELSE r2.s]
         IN [ok |-> r3.ok, s |-> r3.s, changes |-> Cardinality(imageIds)]

BatchUpdateTags ==
    /\ UNCHANGED reqvars
    /\ last.op = "none"
    /\ \E ids \in SUBSET ImageIds, add \in SeqsUpTo(Tags, MaxBatchTags),
          remove \in SeqsUpTo(Tags, MaxBatchTags), failAt \in 0..3 :
      LET r == batchUpdateTags(db, ids, add, remove, failAt)
      IN /\ db' = r.s
         /\ last' = [NoCall EXCEPT !.op = "batchUpdateTags", !.ids = ids,
                       !.tags = add, !.exclude = remove, !.failAt = failAt,
                       !.pre = db, !.ok = r.ok,
                       !.result = IF r.ok THEN r.changes ELSE 0]

InitBatch ==
    /\ db \in {EmptyStore, BareStore, SeedStore}
    /\ last = NoCall
    /\ ReqIdle

NextBatch ==
    \/ CreateTag
    \/ BatchUpdateTags
    \/ Return

SpecBatch == InitBatch /\ [][NextBatch]_vars

(* the pairs of image_tags that differ between two stores *)
Changed(s, t) == (s.image_tags \ t.image_tags) \cup (t.image_tags \ s.image_tags)

(* C25: a batchUpdateTags on some images that all have a row, when it      *)
(* returns, leaves every one of them associated with every tag of addTags  *)
(* and with no tag that is in removeTags and not in addTags; every tag of  *)
(* addTags is stored; no pair of another image or of another tag has       *)
(* changed, nor any image row; and it returns the number of ids. (A pair   *)
(* is in image_tags or not: it cannot appear twice.)                       *)
C25_BatchEffect ==
    ( /\ last.op = "batchUpdateTags" /\ last.ok
      /\ last.ids # {} /\ last.ids \subseteq Present(last.pre) ) =>
      /\ \A i \in last.ids, t \in Range(last.tags) : <<i, t>> \in db.image_tags
      /\ \A i \in last.ids, t \in Range(last.exclude) \ Range(last.tags) :
           <<i, t>> \notin db.image_tags
      /\ db.tags = last.pre.tags \cup Range(last.tags)
      /\ \A q \in Changed(db, last.pre) :
           q[1] \in last.ids /\ q[2] \in Range(last.tags) \cup Range(last.exclude)
      /\ db.images = last.pre.images
      /\ last.result = Cardinality(last.ids)

(* a batch that removed and added the same tag on two images, one of which *)
(* had it and has kept another tag                                         *)
C25_Witness ==
    /\ last.op = "batchUpdateTags" /\ last.ok
    /\ Cardinality(last.ids) > 1 /\ last.ids \subseteq Present(last.pre)
    /\ Range(last.tags) # {} /\ Range(last.tags) = Range(last.exclude)
    /\ \E i \in last.ids, t \in Range(last.tags) : <<i, t>> \in last.pre.image_tags
    /\ \E i \in last.ids, t \in Range(last.tags) : <<i, t>> \notin last.pre.image_tags
    /\ \E q \in db.image_tags : q[1] \in last.ids /\ q[2] \notin Range(last.tags)

(* C26: a batchUpdateTags that throws leaves the store as it was before    *)
(* the call.                                                               *)
C26_BatchAllOrNothing ==
    (last.op = "batchUpdateTags" /\ ~last.ok) => db = last.pre

(* ---------------------------------------------------------------------- *)
(* SpecCounts: every method that writes tags or associations, and          *)
(* getAllTags, one call at a time                                          *)
(* ---------------------------------------------------------------------- *)

(* options?.limit ?? 1000 *)
DefaultLimit == 1000

(* the place of a name in the order of ORDER BY t.name *)
NameIndex(t) == CHOOSE k \in 1..Len(TagNames) : TagNames[k] = t

(* the rows of the tags from the k-th name on, in the order of the names;  *)
(* inner: a JOIN in place of the LEFT JOIN, which has no row for a tag     *)
(* without associations                                                    *)
RECURSIVE TagRows(_, _, _)
TagRows(s, k, inner) ==
    IF k > Len(TagNames) THEN <<>>
    ELSE LET t == TagNames[k]
             count == Cardinality({q \in s.image_tags : q[2] = t})
         IN (IF t \in s.tags /\ (~inner \/ count > 0) THEN <<(<<t, count>>)>> ELSE <<>>)
            \o TagRows(s, k + 1, inner)

(* the first limit of the rows *)
Limited(rows, limit) == SubSeq(rows, 1, Min(limit, Len(rows)))

(* getAllTags with JOIN in place of LEFT JOIN *)
getAllTagsRows_InnerJoin(s, limit) == Limited(TagRows(s, 1, TRUE), limit)

(* getAllTags({ limit }): the list of { name, count } that the query       *)
(* returns, GROUP BY tag, ORDER BY t.name, LIMIT ?                         *)
getAllTagsRows(s, limit) == Limited(TagRows(s, 1, FALSE), limit)

GetAllTags ==
    /\ UNCHANGED reqvars
    /\ last.op = "none"
    /\ \E limit \in {1, DefaultLimit} :
         last' = [NoCall EXCEPT !.op = "getAllTags", !.limit = limit, !.pre = db,
                    !.result = getAllTagsRows(db, limit)]
    /\ UNCHANGED db

InitCounts ==
    /\ db \in {EmptyStore, SeedStore}
    /\ last = NoCall
    /\ ReqIdle

NextCounts ==
    \/ SaveImage
    \/ UpdateImage
    \/ DeleteImage
    \/ CreateTag
    \/ RenameTag
    \/ DeleteTagWithImages
    \/ BatchUpdateTags
    \/ GetAllTags
    \/ Return

SpecCounts == InitCounts /\ [][NextCounts]_vars

(* the images that have a row and are associated with tag t *)
LiveImagesOfTag(s, t) == {i \in Present(s) : <<i, t>> \in s.image_tags}

(* rows lists tags of the store in ascending order of name, each with the  *)
(* number of its images *)
LiveRows(s, rows) ==
    /\ \A k \in 1..Len(rows) :
         /\ rows[k][1] \in s.tags
         /\ rows[k][2] = Cardinality(LiveImagesOfTag(s, rows[k][1]))
    /\ \A j, k \in 1..Len(rows) :
         j < k => NameIndex(rows[j][1]) < NameIndex(rows[k][1])

(* C27: in every state the calls lead to, getAllTags with the default      *)
(* limit lists every stored tag once, in ascending order of name, with the *)
(* number of images that have a row and are associated with it, tags with  *)
(* no image included; with a limit it lists the first tags of that list;   *)
(* and a getAllTags call returns that list.                                *)
C27_TagCountsLive ==
    /\ LiveRows(db, getAllTagsRows(db, DefaultLimit))
    /\ {row[1] : row \in Range(getAllTagsRows(db, DefaultLimit))} = db.tags
    /\ Range(getAllTagsRows(db, DefaultLimit)) = getAllTags(db)
    /\ last.op = "getAllTags" =>
         /\ last.result = Limited(getAllTagsRows(db, DefaultLimit), last.limit)
         /\ Len(last.result) = Min(last.limit, Cardinality(db.tags))
         /\ LiveRows(db, last.result)

(* deleteTagWithImages has deleted the images of a tag, the last images of *)
(* another tag among them, and that tag is listed with count 0             *)
C27_Witness ==
    /\ last.op = "deleteTagWithImages" /\ last.ok
    /\ \E t \in db.tags :
         /\ t # last.name
         /\ ImagesOfTag(last.pre, t) # {}
         /\ <<t, 0>> \in Range(getAllTagsRows(db, DefaultLimit))

(* ---------------------------------------------------------------------- *)
(* SpecConsume: the consumer of DELETE_QUEUE. A message is delivered at    *)
(* least once: it can be delivered again after it was processed, and it is *)
(* delivered again when its processing threw; the queue holds one or two   *)
(* messages, which may name the same images. Here last.objects is the      *)
(* bucket before the delivery and hist the deliveries made, each as        *)
(* <<ids of the job, whether the processing returned>>.                    *)
(* ---------------------------------------------------------------------- *)
Dirs == <<"original", "webp", "avif">>

(* delete(key) with an error for a key that has no object *)
deleteObject_Strict(b, key) ==
    [ok |-> \E o \in b : o.path = key, b |-> {o \in b : o.path # key}]

(* StorageService delete(key): the object of the key is removed; a key     *)
(* with no object is a success                                             *)
deleteObject(b, key) == [ok |-> TRUE, b |-> {o \in b : o.path # key}]

(* the keys of a job: per image, in ascending id, its three paths *)
RECURSIVE JobKeys(_)
JobKeys(ids) ==
    IF ids = {} THEN <<>>
    ELSE LET i == CHOOSE x \in ids : \A y \in ids : x <= y
         IN <<Path(Dirs[1], i), Path(Dirs[2], i), Path(Dirs[3], i)>>
            \o JobKeys(ids \ {i})

(* the keys from the k-th on are deleted one after the other; failAt is    *)
(* the key at which object storage raises an error of its own (0: none)    *)
RECURSIVE DeleteKeys(_, _, _, _)
DeleteKeys(b, keys, k, failAt) ==
    IF k > Len(keys) THEN [ok |-> TRUE, b |-> b]
    ELSE IF k = failAt THEN [ok |-> FALSE, b |-> b]
    ELSE LET r == deleteObject(b, keys[k])
         IN IF r.ok THEN DeleteKeys(r.b, keys, k + 1, failAt) ELSE r

(* the processing of one message *)
processJob(b, job, failAt) == DeleteKeys(b, JobKeys(job.ids), 1, failAt)

(* a message as deleteTagHandler sends it *)
Job(ids) ==
    [type |-> "delete_tag_images", tagName |-> TagNames[1], ids |-> ids,
     live |-> {}, log |-> <<>>]

(* the objects an upload leaves for image i: the three of them, or the     *)
(* original alone                                                          *)
ObjectsOf(i) ==
    {{Put(Path(Dirs[d], i), Dirs[d]) : d \in 1..3}, {Put(Path(Dirs[1], i), Dirs[1])}}

InitConsume ==
    /\ db = EmptyStore
    /\ last = NoCall
    /\ cache = NoEntry
    /\ \E ids \in SUBSET ImageIds \ {{}}, more \in SUBSET ImageIds :
         queue = IF more = {} THEN <<Job(ids)>> ELSE <<Job(ids), Job(more)>>
    /\ proc = [p \in Procs |-> IdleProc]
    /\ hist = <<>>
    /\ acked = 1
    /\ quota = 0
    /\ comp = NoCompress
    /\ up = NoUpload
    /\ \E f \in [ImageIds -> UNION {ObjectsOf(i) : i \in ImageIds}] :
         /\ \A i \in ImageIds : f[i] \in ObjectsOf(i)
         /\ bucket = UNION {f[i] : i \in ImageIds}
    /\ imgrows = [i \in ImageIds |-> NoRow]
    /\ look = NoLookup

(* the first message is delivered and processed; when the processing       *)
(* returns the message is acknowledged, or is kept to be delivered again   *)
Deliver ==
    /\ last.op = "none"
    /\ Len(queue) > 0 /\ Len(hist) < MaxDeliveries
    /\ \E failAt \in 0..Len(JobKeys(queue[1].ids)), again \in BOOLEAN :
         LET r == processJob(bucket, queue[1], failAt) IN
         /\ bucket' = r.b
         /\ queue' = IF r.ok /\ ~again THEN Tail(queue) ELSE queue
         /\ hist' = Append(hist, <<queue[1].ids, r.ok>>)
         /\ last' = [NoCall EXCEPT !.op = "processJob", !.ids = queue[1].ids,
                       !.failAt = failAt, !.ok = r.ok, !.objects = bucket]
    /\ UNCHANGED <<db, cache, proc, acked, quota, comp, up, imgrows, look>>

(* the consumer returns *)
Delivered ==
    /\ last.op = "processJob"
    /\ last' = NoCall
    /\ UNCHANGED <<db, cache, queue, proc, hist, acked, quota>> /\ UNCHANGED imgvars

NextConsume ==
    \/ Deliver
    \/ Delivered

SpecConsume == InitConsume /\ [][NextConsume]_vars

(* the keys of the job processed last *)
LastKeys == Range(JobKeys(last.ids))

(* C28: when object storage raises no error of its own, the processing of  *)
(* a job returns whatever objects exist, also when the job or some of its  *)
(* keys were processed before; afterwards no key of the job has an object  *)
(* and every other object is as before, so that deleting keys that have no *)
(* object leaves the bucket unchanged; and a processing that threw has     *)
(* removed nothing but objects of the job.                                 *)
C28_DeleteIdempotent ==
    last.op = "processJob" =>
      /\ last.failAt = 0 => last.ok
      /\ last.ok =>
           /\ bucket = {o \in last.objects : o.path \notin LastKeys}
           /\ (\A o \in last.objects : o.path \notin LastKeys) => bucket = last.objects
      /\ bucket \subseteq last.objects
      /\ \A o \in last.objects \ bucket : o.path \in LastKeys

(* a job for two images is processed again right after a processing of it  *)
(* that returned: it returns and the bucket is as it was                   *)
C28_Witness ==
    /\ last.op = "processJob" /\ last.ok
    /\ Len(hist) > 1
    /\ hist[Len(hist) - 1] = <<last.ids, TRUE>>
    /\ bucket = last.objects
    /\ Cardinality(last.ids) > 1
    /\ \A k \in 1..(Len(hist) - 1) : hist[k][1] = last.ids

(* ---------------------------------------------------------------------- *)
(* SpecCache: the tag handlers with a cache that can fail. CacheService    *)
(* catches the error of the KV call: get then returns nothing, set and the *)
(* invalidations return without having written. The log of the request     *)
(* records the failure.                                                    *)
(* ---------------------------------------------------------------------- *)

(* the error of the KV get reaches the handler, whose catch answers *)
TagsGetFail_Throws(p) ==
    /\ proc[p].pc = "t_get"
    /\ proc' = [proc EXCEPT ![p] = Failed([@ EXCEPT !.log = Append(@, "getfail")])]
    /\ UNCHANGED <<db, last, cache, queue, hist, acked, quota>> /\ UNCHANGED imgvars

(* cache.get fails: nothing is returned, as on a miss *)
TagsGetFail(p) ==
    /\ proc[p].pc = "t_get"
    /\ proc' = [proc EXCEPT ![p] = [@ EXCEPT !.pc = "t_query", !.log = Append(@, "getfail")]]
    /\ UNCHANGED <<db, last, cache, queue, hist, acked, quota>> /\ UNCHANGED imgvars

(* cache.set fails: the entry is as before, then the response *)
TagsSetFail(p) ==
    /\ proc[p].pc = "t_set"
    /\ proc' = [proc EXCEPT ![p] = Succeeded([@ EXCEPT !.log = Append(@, "setfail")], @.data)]
    /\ UNCHANGED <<db, last, cache, queue, hist, acked, quota>> /\ UNCHANGED imgvars

(* cache.invalidateTagsList fails in createTagHandler *)
CreateInvalidateFail(p) ==
    /\ proc[p].pc = "c_inv"
    /\ acked' = Max(acked, proc[p].wrote)
    /\ proc' = [proc EXCEPT ![p] =
                  Succeeded([@ EXCEPT !.log = Append(@, "invfail")],
                            {<<proc[p].name, 0>>})]
    /\ UNCHANGED <<db, last, cache, queue, hist, quota>> /\ UNCHANGED imgvars

(* cache.invalidateAfterTagChange fails in renameTagHandler *)
RenameInvalidateFail(p) ==
    /\ proc[p].pc = "r_inv"
    /\ proc' = [proc EXCEPT ![p] = [@ EXCEPT !.pc = "r_tags", !.log = Append(@, "invfail")]]
    /\ UNCHANGED <<db, last, cache, queue, hist, acked, quota>> /\ UNCHANGED imgvars

(* cache.invalidateAfterTagChange fails in deleteTagHandler *)
DeleteInvalidateFail(p) ==
    /\ proc[p].pc = "d_inv"
    /\ LET r == [proc[p] EXCEPT !.log = Append(@, "invfail")] IN
       IF Len(proc[p].paths) > 0
       THEN /\ proc' = [proc EXCEPT ![p] = [r EXCEPT !.pc = "d_send"]]
            /\ UNCHANGED acked
       ELSE /\ proc' = [proc EXCEPT ![p] = Succeeded(r, {<<r.name, r.deleted>>})]
            /\ acked' = Max(acked, r.wrote)
    /\ UNCHANGED <<db, last, cache, queue, hist, quota>> /\ UNCHANGED imgvars

(* cache.invalidateAfterTagChange fails in batchTagsHandler *)
BatchInvalidateFail(p) ==
    /\ proc[p].pc = "b_inv"
    /\ acked' = Max(acked, proc[p].wrote)
    /\ proc' = [proc EXCEPT ![p] = Succeeded([@ EXCEPT !.log = Append(@, "invfail")], {})]
    /\ UNCHANGED <<db, last, cache, queue, hist, quota>> /\ UNCHANGED imgvars

InitCache == InitReq

NextCache ==
    \E p \in Procs :
      \/ StartTags(p) \/ TagsGet(p) \/ TagsQuery(p) \/ TagsSet(p)
      \/ TagsGetFail(p) \/ TagsSetFail(p)
      \/ StartCreate(p) \/ CreateDb(p) \/ CreateInvalidate(p) \/ CreateInvalidateFail(p)
      \/ StartRename(p) \/ RenameCount(p) \/ RenameUpdate(p)
      \/ RenameInvalidate(p) \/ RenameInvalidateFail(p) \/ RenameTags(p)
      \/ StartDelete(p) \/ DeletePaths(p) \/ DeleteImages(p) \/ DeleteTag(p)
      \/ DeleteInvalidate(p) \/ DeleteInvalidateFail(p) \/ DeleteSend(p)
      \/ StartBatch(p) \/ BatchEnsure(p) \/ BatchRemove(p) \/ BatchAdd(p)
      \/ BatchInvalidate(p) \/ BatchInvalidateFail(p)
      \/ Finish(p)

SpecCache == InitCache /\ [][NextCache]_vars

(* the places of the handlers at a call of CacheService *)
CachePlaces == {"t_get", "t_set", "c_inv", "r_inv", "d_inv", "b_inv"}

(* C29: no step of a tag handler at a cache call answers with a failure or *)
(* changes the store, whether the cache call fails or not; a failing get   *)
(* in the tags-list request leads to the query of the metadata store; and  *)
(* a tags-list request that has answered after a failing get has answered  *)
(* with a tag list the store has held.                                     *)
C29_CacheNeverFatal ==
    [][\A p \in Procs :
         /\ (proc[p].pc \in CachePlaces /\ proc'[p] # proc[p]) =>
              /\ proc'[p].resp # "error"
              /\ db' = db
              /\ (proc[p].pc = "t_get" /\ Logged(proc'[p].log, "getfail")) =>
                   proc'[p].pc = "t_query"
         /\ (proc'[p].h = "tags" /\ proc'[p].resp = "success"
             /\ Logged(proc'[p].log, "getfail")) =>
              \E k \in 1..Len(hist) : hist[k] = proc'[p].data]_vars

(* a tags-list request has answered although its cache get and its cache   *)
(* set failed, while a rename whose invalidation failed has answered with  *)
(* success                                                                 *)
C29_Witness ==
    \E p, q \in Procs :
      /\ proc[p].h = "tags" /\ proc[p].pc = "done" /\ proc[p].resp = "success"
      /\ Logged(proc[p].log, "getfail") /\ Logged(proc[p].log, "setfail")
      /\ proc[q].h = "rename" /\ proc[q].pc = "done" /\ proc[q].resp = "success"
      /\ Logged(proc[q].log, "db") /\ Logged(proc[q].log, "invfail")

(* ---------------------------------------------------------------------- *)
(* SpecInvalidate: uploads with the tags list cached or not                *)
(* ---------------------------------------------------------------------- *)
InitInvalidate ==
    /\ db = EmptyStore
    /\ last = NoCall
    /\ cache \in {NoEntry, Entry(getAllTags(EmptyStore))}
    /\ queue = <<>>
    /\ proc = [p \in Procs |-> IdleProc]
    /\ hist = <<{}>>
    /\ acked = 1
    /\ quota = MaxUploads
    /\ ImgIdle

NextInvalidate ==
    \/ UploadStart
    \/ UploadPut
    \/ CompressDims
    \/ WebpAttempt
    \/ AvifAttempt
    \/ UploadFirst
    \/ UploadVariants
    \/ UploadSave
    \/ UploadInvalidate
    \/ UploadEnd

SpecInvalidate == InitInvalidate /\ [][NextInvalidate]_vars

(* C30: the upload's invalidation exists only once saveImage has written   *)
(* the image and the response is the success; the step that answers        *)
(* starts the invalidation of the images list and of the tags list and     *)
(* waits for neither; when both have succeeded both entries are deleted;   *)
(* and no invalidation, failing or not, changes the response, the metadata *)
(* store or object storage.                                                *)
C30_InvalidationFireAndForget ==
    [][/\ (up'.inval # "none" \/ up'.lists # {} \/ up'.cleared # {}) =>
            /\ up'.resp = "success"
            /\ db'.images[up'.id] = up'.orientation
            /\ imgrows'[up'.id] = up'.paths
       /\ (up.resp # "success" /\ up'.resp = "success") =>
            /\ up'.inval = "scheduled"
            /\ up'.lists = CachedLists /\ up'.cleared = {}
       /\ up'.inval = "done" => (up'.cleared = CachedLists /\ ~cache'.present)
       /\ (up.lists # {} /\ up'.lists # up.lists) =>
            /\ up'.resp = up.resp /\ up'.pc = up.pc
            /\ db' = db /\ imgrows' = imgrows /\ bucket' = bucket]_vars

(* an upload has answered with success and saved its image, the images     *)
(* list has been invalidated, the invalidation of the tags list has        *)
(* failed and the old entry of the tags list is still cached               *)
C30_Witness ==
    /\ up.pc = "done" /\ up.resp = "success"
    /\ up.inval = "failed" /\ up.lists = {} /\ up.cleared = {"images"}
    /\ cache.present
    /\ db.images[up.id] = up.orientation
    /\ Range(up.tags) # {}

(* ---------------------------------------------------------------------- *)
(* SpecChunks: deleteTagHandler for a tag carried by many images. The      *)
(* store holds up to MaxPaths images, every one of them associated with    *)
(* the first tag: imgrows holds their rows (here over 1..n) and db the tag *)
(* rows; every other image of a pattern is a GIF saved without variant     *)
(* paths. bucket holds the objects of the rows. hist holds, as history,    *)
(* the rows the store held at the start.                                   *)
(* ---------------------------------------------------------------------- *)
MaxPaths == 101

(* the row of image i: path_webp and path_avif are NULL (NoPath) when the  *)
(* image was saved with empty variant paths                                *)
RowOf(i, gif) ==
    IF gif
    THEN [format |-> "gif", original |-> Path("original", i),
          webp |-> NoPath, avif |-> NoPath]
    ELSE [format |-> "png", original |-> Path("original", i),
          webp |-> Path("webp", i), avif |-> Path("avif", i)]

(* the objects the row of an image names *)
RowObjects(row) ==
    {Put(row[d], d) : d \in {x \in {"original", "webp", "avif"} : row[x] # NoPath}}

(* undefined, as a property of an entry of imagePaths *)
Undefined == [dir |-> "undefined", id |-> NoImage]

(* value || undefined: NULL and the empty string give undefined *)
OrUndefined(v) == IF v.dir = "" THEN Undefined ELSE v

(* images.map(img => ({id, paths: {original, webp || undefined,            *)
(* avif || undefined}})), images being the rows of the tag in id order     *)
imagePaths(rows, ids) ==
    [k \in 1..Len(ids) |->
       [id |-> ids[k],
        paths |-> [original |-> rows[ids[k]].original,
                   webp |-> OrUndefined(rows[ids[k]].webp),
                   avif |-> OrUndefined(rows[ids[k]].avif)]]]

(* a slice that includes the element at its end index *)
slice_Inclusive(s, start, end) ==
    SubSeq(s, start + 1, Min(end + 1, Len(s)))

(* Array.prototype.slice(start, end) for 0 <= start <= end: the elements   *)
(* at the 0-based indexes start .. end - 1 that exist                      *)
slice(s, start, end) ==
    SubSeq(s, start + 1, Min(end, Len(s)))

InitChunks ==
    /\ db = [EmptyStore EXCEPT !.tags = {TagNames[1]}]
    /\ last = NoCall
    /\ cache \in {NoEntry, Entry({<<TagNames[1], 0>>})}
    /\ queue = <<>>
    /\ proc = [p \in Procs |-> IdleProc]
    /\ quota = 1
    /\ acked = 1
    /\ comp = NoCompress
    /\ up = NoUpload
    /\ look = NoLookup
    /\ \E n \in 0..MaxPaths, m \in {2, 3} :
         /\ imgrows = [i \in 1..n |-> RowOf(i, i % m = 0)]
         /\ bucket = UNION {RowObjects(RowOf(i, i % m = 0)) : i \in 1..n}
         /\ hist = <<[i \in 1..n |-> RowOf(i, i % m = 0)]>>

(* DELETE /api/tags/:name for the tag of the images *)
StartDeleteRows(p) ==
    /\ Begin(p)
    /\ proc' = [proc EXCEPT ![p] =
                  [Started("delete", "d_paths") EXCEPT !.name = TagNames[1]]]
    /\ UNCHANGED <<db, last, cache, queue, hist, acked>> /\ UNCHANGED imgvars

(* 1. metadata.getImagePathsByTag(name), whose rows are those of the ids   *)
(* 1..n in this order, and the map to imagePaths                           *)
DeleteRows(p) ==
    /\ proc[p].pc = "d_paths"
    /\ \E fail \in BOOLEAN :
         proc' = [proc EXCEPT ![p] =
                    IF fail THEN Failed(@)
                    ELSE [@ EXCEPT !.pc = "d_images",
                            !.paths = imagePaths(imgrows, [k \in 1..Len(imgrows) |-> k])]]
    /\ UNCHANGED <<db, last, cache, queue, hist, acked, quota>> /\ UNCHANGED imgvars

(* 2. metadata.deleteTagWithImages(name): the image rows of the tag are    *)
(* deleted, then the tag row; failAt is the statement that raises (0:      *)
(* none), and the statements before it stay executed                       *)
DeleteMetadata(p) ==
    /\ proc[p].pc = "d_images"
    /\ \E failAt \in 0..2 :
         /\ imgrows' = IF failAt = 1 THEN imgrows ELSE <<>>
         /\ db' = IF failAt = 0 THEN DeleteTagRow(db, proc[p].name).s ELSE db
         /\ proc' = [proc EXCEPT ![p] =
                       IF failAt # 0 THEN Failed([@ EXCEPT !.log = Append(@, "dbfail")])
                       ELSE [@ EXCEPT !.pc = "d_inv", !.log = @ \o <<"images", "tag">>,
                                      !.removed = DOMAIN imgrows,
                                      !.deleted = Len(imgrows)]]
    /\ UNCHANGED <<last, cache, queue, hist, acked, quota, comp, up, bucket, look>>

(* on a failed send the loop goes on with the next chunk *)
DeleteSendChunk_Continue(p) ==
    /\ proc[p].pc = "d_send"
    /\ \E fail \in BOOLEAN :
         LET r == proc[p]
             job == [type |-> "delete_tag_images", tagName |-> r.name,
                     imagePaths |-> slice(r.paths, r.i, r.i + chunkSize)]
             sent == [r EXCEPT !.i = @ + chunkSize,
                               !.log = Append(@, IF fail THEN "sendfail" ELSE "send")]
         IN /\ queue' = IF fail THEN queue ELSE Append(queue, job)
            /\ proc' = [proc EXCEPT ![p] =
                          IF sent.i < Len(r.paths) THEN sent
                          ELSE Succeeded(sent, {<<r.name, r.deleted>>})]
    /\ UNCHANGED <<db, last, cache, hist, acked, quota>> /\ UNCHANGED imgvars

(* 4. one turn of the loop: DELETE_QUEUE.send of the next chunkSize        *)
(* entries of imagePaths; a send that throws ends the request in the catch *)
(* block; after the last chunk, the response                               *)
DeleteSendChunk(p) ==
    /\ proc[p].pc = "d_send"
    /\ \E fail \in BOOLEAN :
         LET r == proc[p]
             job == [type |-> "delete_tag_images", tagName |-> r.name,
                     imagePaths |-> slice(r.paths, r.i, r.i + chunkSize)]
             sent == [r EXCEPT !.i = @ + chunkSize, !.log = Append(@, "send")]
         IN IF fail
            THEN /\ proc' = [proc EXCEPT ![p] =
                               Failed([r EXCEPT !.log = Append(@, "sendfail")])]
                 /\ UNCHANGED queue
            ELSE /\ queue' = Append(queue, job)
                 /\ proc' = [proc EXCEPT ![p] =
                               IF sent.i < Len(r.paths) THEN sent
                               ELSE Succeeded(sent, {<<r.name, r.deleted>>})]
    /\ UNCHANGED <<db, last, cache, hist, acked, quota>> /\ UNCHANGED imgvars

NextChunks ==
    \E p \in Procs :
      \/ StartDeleteRows(p)
      \/ DeleteRows(p)
      \/ DeleteMetadata(p)
      \/ DeleteInvalidate(p)
      \/ DeleteSendChunk(p)
      \/ Finish(p)

SpecChunks == InitChunks /\ [][NextChunks]_vars

(* the places <<j, k>> of the jobs of the queue whose entry is of image i *)
PlacesOf(i) ==
    {q \in (1..Len(queue)) \X (1..chunkSize) :
       /\ q[2] <= Len(queue[q[1]].imagePaths)
       /\ queue[q[1]].imagePaths[q[2]].id = i}

(* the entry of the jobs at a place *)
EntryAt(q) == queue[q[1]].imagePaths[q[2]]

(* C31: when the delete-tag request has answered with success, for the N   *)
(* images read for the tag the queue holds ceil(N / 50) jobs, none when N  *)
(* is 0; each job carries between 1 and 50 entries; and every image read   *)
(* has exactly one entry in exactly one job, with the original path of its *)
(* row, the variant paths of the row that are not empty, and undefined for *)
(* the ones that are.                                                      *)
C31_JobsPartitionImages ==
    \A p \in Procs :
      (proc[p].h = "delete" /\ proc[p].resp = "success") =>
        LET rows == hist[1]
            N == Len(rows)
        IN /\ Len(proc[p].paths) = N
           /\ Len(queue) = (N + chunkSize - 1) \div chunkSize
           /\ \A j \in 1..Len(queue) :
                /\ Len(queue[j].imagePaths) \in 1..chunkSize
                /\ queue[j].tagName = proc[p].name
           /\ \A i \in DOMAIN rows :
                /\ Cardinality(PlacesOf(i)) = 1
                /\ \A q \in PlacesOf(i) :
                     /\ EntryAt(q).paths.original = rows[i].original
                     /\ \A d \in {"webp", "avif"} :
                          EntryAt(q).paths[d] =
                            IF rows[i][d] = NoPath THEN Undefined ELSE rows[i][d]

(* a tag of 101 images has been deleted with three jobs, the last of one   *)
(* entry; image 2 is a GIF whose entry has no variant path, image 1 has    *)
(* both of its variant paths in its entry                                  *)
C31_Witness ==
    /\ proc[1].h = "delete" /\ proc[1].resp = "success"
    /\ Len(proc[1].paths) > 2 * chunkSize
    /\ Len(queue) = 3
    /\ Len(queue[3].imagePaths) = Len(proc[1].paths) - 2 * chunkSize
    /\ queue[1].imagePaths[2].paths.webp = Undefined
    /\ queue[1].imagePaths[1].paths.avif = Path("avif", 1)
    /\ proc[1].deleted = Len(proc[1].paths)

(* C32: a send that throws ends the request with the error response and   *)
(* changes neither the queue, the metadata store, the cache nor object     *)
(* storage: the jobs sent before stay, the tag and its images stay absent  *)
(* from the store, the tags list stays invalidated, and the objects of the *)
(* images of the failed and of the later chunks stay in storage; and once  *)
(* the request has ended nothing more is sent.                             *)
C32_SendFailureLeavesOrphans ==
    [][\A p \in Procs :
         /\ (/\ proc[p].pc = "d_send"
             /\ proc'[p].log = Append(proc[p].log, "sendfail")) =>
              /\ proc'[p].pc = "done" /\ proc'[p].resp = "error"
              /\ queue' = queue /\ db' = db /\ imgrows' = imgrows
              /\ cache' = cache /\ bucket' = bucket
              /\ proc[p].name \notin db'.tags
              /\ ~cache'.present
              /\ Len(queue') * chunkSize = proc[p].i
              /\ \A k \in (proc[p].i + 1)..Len(proc[p].paths) :
                   /\ proc[p].paths[k].id \notin DOMAIN imgrows'
                   /\ Put(proc[p].paths[k].paths.original, "original") \in bucket'
         /\ (proc[p].h = "delete" /\ proc[p].pc = "done") => queue' = queue]_vars

(* of the three chunks of a tag of 101 images the first was sent and the   *)
(* send of the second threw: the request has answered with the error, one  *)
(* job is queued, no image row is left and every object is still stored    *)
C32_Witness ==
    /\ proc[1].h = "delete" /\ proc[1].pc = "done" /\ proc[1].resp = "error"
    /\ Len(proc[1].log) > 0
    /\ proc[1].log[Len(proc[1].log)] = "sendfail"
    /\ Len(proc[1].paths) > 2 * chunkSize
    /\ Len(queue) = 1
    /\ imgrows = <<>>
    /\ bucket = UNION {RowObjects(hist[1][i]) : i \in DOMAIN hist[1]}
    /\ bucket # {}

(* ---------------------------------------------------------------------- *)
(* Claims about the order of object writes and the metadata row            *)
(* ---------------------------------------------------------------------- *)
(* the keys an upload writes: the original and, unless it is a GIF, the    *)
(* two variant keys                                                        *)
UploadKeys(u) ==
    {u.paths.original}
      \cup (IF u.format = "gif" THEN {} ELSE {u.paths.webp, u.paths.avif})

(* C33: the step that writes the image row of an upload is taken with no   *)
(* object write of the upload running or rejected and with an object       *)
(* stored at each of its keys, the original being the file; a step of an   *)
(* upload one of whose object writes was rejected writes nothing to the    *)
(* metadata store, and such an upload answers with the error; and every    *)
(* image row of the store has its original object in storage.              *)
C33_RowAfterObjects ==
    [][/\ (\E i \in ImageIds : db.images[i] = "absent" /\ db'.images[i] # "absent") =>
            /\ db.images[up.id] = "absent" /\ db'.images[up.id] # "absent"
            /\ up.pending = {} /\ ~up.failed
            /\ \A key \in UploadKeys(up) : \E o \in bucket : o.path = key
            /\ Put(up.paths.original, "original") \in bucket
       /\ (up.failed \/ up'.failed) => (db' = db /\ imgrows' = imgrows)
       /\ (up'.failed /\ up'.pc = "done") => up'.resp = "error"
       /\ \A i \in ImageIds :
            db'.images[i] # "absent" => Put(Path("original", i), "original") \in bucket']_vars

(* a PNG uploaded with compression has its row and its tag saved, after    *)
(* its three objects were stored, the AVIF one being a copy of the file    *)
C33_Witness ==
    /\ up.pc = "done" /\ up.resp = "success"
    /\ up.format = "png" /\ up.compression
    /\ db.images[up.id] # "absent"
    /\ TagsOfImage(db, up.id) # {}
    /\ Put(up.paths.original, "original") \in bucket
    /\ Put(up.paths.webp, "webp") \in bucket
    /\ Put(up.paths.avif, "original") \in bucket

(* ---------------------------------------------------------------------- *)
(* Claims about the order of the transforms of one compress call           *)
(* ---------------------------------------------------------------------- *)
(* the call of a transform a step makes, if it makes one *)
Called(format) ==
    /\ Len(comp'.log) = Len(comp.log) + 1
    /\ comp'.log[Len(comp'.log)].format = format

(* C34: in one compress call no WebP transform is called once an AVIF      *)
(* transform has been called; and the first call of the AVIF transform is  *)
(* made with the WebP part over: WebP was not asked for, or its last call  *)
(* succeeded, failed with an error that is not retried, or was the last    *)
(* attempt allowed, and every wait between WebP attempts has been slept.   *)
C34_WebpBeforeAvif ==
    [][/\ Called("webp") => CallsOf("avif") = {}
       /\ (Called("avif") /\ CallsOf("avif") = {}) =>
            /\ comp.pc = "avif" /\ comp.attempt = 1
            /\ \A k \in CallsOf("avif") \cup {Len(comp'.log)} :
                 \A j \in CallsOf("webp") : j < k
            /\ IF comp.opts.generateWebp
               THEN /\ CallsOf("webp") # {}
                    /\ LET n == Cardinality(CallsOf("webp")) IN
                       /\ \/ comp.log[n].ok
                          \/ ~Transient(n)
                          \/ comp.log[n].attempt = WebpAttempts
                       /\ CallsOf("webp") = 1..n
                       /\ Len(comp.slept) = n - 1
               ELSE CallsOf("webp") = {} /\ comp.slept = <<>>]_vars

(* the WebP transform failed twice with a transient error, with one wait   *)
(* between the attempts, and then the AVIF transform was called            *)
C34_Witness ==
    /\ Len(comp.log) = 3
    /\ comp.log[1].format = "webp" /\ comp.log[2].format = "webp"
    /\ ~comp.log[2].ok
    /\ comp.log[3].format = "avif"
    /\ ~comp.webp
    /\ Len(comp.slept) >= 1

(* ---------------------------------------------------------------------- *)
(* SpecBinds: the statements enrichWithTags and batchUpdateTags send for   *)
(* up to MaxIds image ids. The calls are followed as far as the statements *)
(* they send, which depend on the ids and tags passed and not on what the  *)
(* store returns; hist holds the statements of the call made last.         *)
(* ---------------------------------------------------------------------- *)
MaxIds == 95

(* chunkSize of enrichWithTags *)
IdChunk == 90

(* enrichWithTags from the i-th id on: one SELECT per chunk of IdChunk ids *)
RECURSIVE enrichStatements(_, _)
enrichStatements(imageIds, i) ==
    IF i >= Len(imageIds) THEN <<>>
    ELSE <<[op |-> "selectImageTags",
            ids |-> Range(slice(imageIds, i, i + IdChunk))]>>
         \o enrichStatements(imageIds, i + IdChunk)

(* the statements batchUpdateTags sends when none of them throws *)
batchStatements(imageIds, addTags, removeTags) ==
    IF imageIds = {} THEN <<>>
    ELSE EnsureStatements(addTags, 1)
         \o (IF Len(removeTags) > 0
             THEN <<[op |-> "deleteImageTags", ids |-> imageIds,
                     names |-> Range(removeTags)]>>
             ELSE <<>>)
         \o AddStatements(imageIds, addTags, 1)

(* enrichWithTags(rows) for the rows of n images *)
EnrichWithTags ==
    /\ last.op = "none"
    /\ \E n \in 0..MaxIds :
         /\ hist' = enrichStatements([k \in 1..n |-> k], 0)
         /\ last' = [NoCall EXCEPT !.op = "enrichWithTags", !.ids = 1..n]
    /\ UNCHANGED <<db, cache, queue, proc, acked, quota>> /\ UNCHANGED imgvars

(* batchUpdateTags(imageIds, addTags, removeTags) for n image ids *)
BatchStatements ==
    /\ last.op = "none"
    /\ \E n \in 0..MaxIds, add \in SeqsUpTo(Tags, MaxBatchTags),
          remove \in SeqsUpTo(Tags, MaxBatchTags) :
         /\ hist' = batchStatements(1..n, add, remove)
         /\ last' = [NoCall EXCEPT !.op = "batchUpdateTags", !.ids = 1..n,
                       !.tags = add, !.exclude = remove]
    /\ UNCHANGED <<db, cache, queue, proc, acked, quota>> /\ UNCHANGED imgvars

(* the call returns *)
ReturnStatements ==
    /\ last.op # "none"
    /\ last' = NoCall
    /\ hist' = <<>>
    /\ UNCHANGED <<db, cache, queue, proc, acked, quota>> /\ UNCHANGED imgvars

InitBinds ==
    /\ db = EmptyStore
    /\ last = NoCall
    /\ cache = NoEntry
    /\ queue = <<>>
    /\ proc = [p \in Procs |-> IdleProc]
    /\ hist = <<>>
    /\ acked = 1
    /\ quota = 0
    /\ ImgIdle

NextBinds ==
    \/ EnrichWithTags
    \/ BatchStatements
    \/ ReturnStatements

SpecBinds == InitBinds /\ [][NextBinds]_vars

(* the image ids a statement binds *)
BoundIds(st) == IF "ids" \in DOMAIN st THEN st.ids ELSE {}

(* C35: every statement sent by enrichWithTags or by batchUpdateTags binds *)
(* at most 90 image ids, whatever the number of images passed.             *)
C35_IdsChunked ==
    \A k \in 1..Len(hist) : Cardinality(BoundIds(hist[k])) <= IdChunk

(* ---------------------------------------------------------------------- *)
(* Claims about what the delete-tag and rename-tag requests report         *)
(* ---------------------------------------------------------------------- *)
(* the jobs of the queue that carry image i for the tag of request p *)
JobsOf(p, i) ==
    {k \in 1..Len(queue) : queue[k].tagName = proc[p].name /\ i \in queue[k].ids}

(* C36: when a delete-tag request has answered with success, every image   *)
(* whose row its deleteTagWithImages removed is carried by exactly one job *)
(* of the queue, and the deletedImages it reports is the number of images  *)
(* it enqueued, whatever ran between its steps.                            *)
C36_RemovedImagesEnqueued ==
    \A p \in Procs :
      (proc[p].h = "delete" /\ proc[p].resp = "success") =>
        /\ \A i \in proc[p].removed : Cardinality(JobsOf(p, i)) = 1
        /\ proc[p].deleted = Len(proc[p].paths)

(* C37: the step in which the rename-tag request answers with success      *)
(* leaves a store that holds a tag under the new name.                     *)
C37_RenamedTagExists ==
    [][\A p \in Procs :
         (proc[p].h = "rename" /\ proc[p].pc # "done" /\ proc'[p].resp = "success") =>
           proc'[p].newName \in db'.tags]_vars

====
